---- MODULE Spec2Model ----
(***************************************************************************)
(* A model of pagoda/cooper.py: the marker-following World of the Cooper   *)
(* method (Markers, World._step_to_marker_frame and the drive modes built  *)
(* on it), together with the parts of physics.World it calls.              *)
(*                                                                         *)
(* Python generators are modelled by a program counter: one action per     *)
(* statement of the generator bodies, a suspension state ("suspended")     *)
(* where control is with the caller, and a Resume action for next().       *)
(*                                                                         *)
(* Numbers.  Positions are one coordinate (the code treats the three       *)
(* coordinates alike) on an integer grid; recorded marker positions are    *)
(* even, so that the centred difference (next - prev) / (2 * dt) and the   *)
(* displacement velocity * dt are exact.  dt is 1 / FrameRate.  Compliance *)
(* (CFM) is counted in units of 1e-6 and stiffness (ERP) in tenths.  A     *)
(* validity flag is counted in units of 1 / VisScale, so that -VisScale    *)
(* is the flag -1 and the flags between -1 and 0 exist.                    *)
(*                                                                         *)
(* The rigid-body engine (ODE) is external: one engine step is a choice of *)
(* the next pose of every skeleton body and of the joint feedback among a  *)
(* bounded set; marker proxy bodies are kinematic and move by their        *)
(* velocity.                                                               *)
(***************************************************************************)
EXTENDS Integers, Sequences, FiniteSets, TLC

\* ---------------------------------------------------------------- bounds
NumFrames == 3
MaxPose == 1
MaxTorque == 1
MaxAbandons == 1
VisScale == 2
MaxLines == 2

\* ------------------------------------------------------ program constants
FrameRate == 60
DEFAULT_CFM == 100
DEFAULT_ERP == 3
DefaultRootFactor == 1
DefaultEnd == 1000000
DefaultIKForce == 20
DefaultIDForce == 100
num_dofs == 1

\* ------------------------------------------------------------- the state
VARIABLES
    \* Markers
    data,                   \* data[f][j]: [pos, vis] of channel index j at frame f
    channels,               \* label -> channel index
    marker_bodies,          \* label -> [position, linear_velocity]
    attach_bodies,          \* label -> <<>> (no target) or <<body name>>
    attach_offsets,         \* label -> <<>> or <<offset>>
    roots,                  \* names of the skeleton's root bodies
    cfm, erp, root_attachment_factor,
    joints,                 \* Markers.joints: the list of attachments
    jointgroup,             \* Markers.jointgroup: the engine's joint group
    \* World and skeleton
    bodies,                 \* skeleton body name -> body state
    contactgroup,           \* the contact joints of the world
    motors,                 \* [enabled, max_force, target]
    forces,                 \* torque accumulated on each DOF since the last engine step
    feedback,               \* joint torque feedback of the last engine step
    \* the running drive mode
    mode, pc,
    abandons,               \* how many suspended generators the caller has abandoned
    scenario,               \* what the caller does: one call ("single") or many ("session")
    start, end, states_arg, max_force,
    frame_no, i, states, torques, zeros, angles,
    \* history
    log,                    \* the operations of the current run, in order
    yielded,                \* the frames whose result the current run has yielded
    captured,               \* markers, attachments and contacts at the last checkpoint
    \* direct calls of the Markers operations
    source,                 \* the lines of the attachment configuration being read
    line_no,                \* how many of its lines load_attachments has consumed
    joints_before,          \* how many attachments the last direct call found
    memo,                   \* the first attach() made with no attachment in place
    \* World.load_markers
    file,                   \* the marker file and max_frames of the call, if one was made
    proxies,                \* world bodies named marker:<label>: label -> the call that made it
    prior,                  \* the Markers object and the bodies as the call found them
    \* World.step
    stepper                 \* the calls of World.step, where the caller uses it

markerVars == <<data, channels, marker_bodies, attach_bodies, attach_offsets, roots,
                cfm, erp, root_attachment_factor, joints, jointgroup>>
worldVars == <<bodies, contactgroup, motors, forces, feedback>>
runVars == <<mode, pc, scenario, abandons, start, end, states_arg, max_force,
             frame_no, i, states, torques, zeros, angles>>
histVars == <<log, yielded, captured>>
apiVars == <<source, line_no, joints_before, memo>>
fileVars == <<file, proxies, prior>>
vars == <<markerVars, worldVars, runVars, histVars, apiVars, fileVars, stepper>>

\* --------------------------------------------------------------- helpers
None == <<>>
Some(x) == <<x>>
IsNone(o) == o = <<>>
The(o) == o[1]

Min(a, b) == IF a < b THEN a ELSE b
Max(a, b) == IF a < b THEN b ELSE a

Frames == 0 .. NumFrames - 1
Labels == {"m0", "m1"}
LabelOrder == <<"m0", "m1">>
SkelBodies == <<"b0", "b1">>
SkelBodySet == {SkelBodies[k] : k \in 1 .. Len(SkelBodies)}
Poses == 0 .. MaxPose
Dofs == 1 .. num_dofs
ZeroVec == [d \in Dofs |-> 0]
ConstVec(v) == [d \in Dofs |-> v]
VecAdd(u, v) == [d \in Dofs |-> u[d] + v[d]]

PoseState(p) ==
    [position |-> p, quaternion |-> p, linear_velocity |-> p, angular_velocity |-> p]

\* Python's s[a:b] for 0 <= a, on a sequence indexed from 1.
PySlice(s, a, b) == SubSeq(s, a + 1, Min(b, Len(s)))

\* An int, or what forward_dynamics passes as `end`: its `states` argument.
IntEnd(n) == [kind |-> "int", v |-> n]
NoneEnd == [kind |-> "None", v |-> 0]
ListEnd == [kind |-> "list", v |-> 0]

\* ------------------------------------------------------- the loaded world
\* The marker track of the drive-mode specification: channel m0 is seen in
\* every frame, channel m1 drops out in frame 1.
DriveTrack ==
    [f \in Frames |->
        [j \in 0 .. 1 |->
            [pos |-> 2 * f * (j + 1),
             vis |-> IF j = 1 /\ f = 1 THEN -VisScale ELSE 0]]]

num_frames == Cardinality(DOMAIN data)
num_markers == Cardinality(DOMAIN data[0])

\* One angle vector and one torque vector per frame (the arguments of
\* inverse_dynamics and forward_dynamics), entry f recognisable as f + 1.
AnglesInput == [f \in 1 .. NumFrames |-> ConstVec(f)]
TorquesInput == [f \in 1 .. NumFrames |-> ConstVec(f)]

\* A FrameState a caller passes as `states`: every body in pose MaxPose.
StatesInput ==
    [k \in 1 .. Len(SkelBodies) |->
        [name |-> SkelBodies[k], position |-> MaxPose, quaternion |-> MaxPose,
         linear_velocity |-> MaxPose, angular_velocity |-> MaxPose]]

\* ------------------------------------------------------------ Markers
\* Markers.detach: the new (jointgroup, joints).
detach_joints == <<>>

\* A variant of NewJoint that takes a marker for a dropout as reposition()
\* does: when its flag is -1 or less.
NewJointSeenAboveMinusOne(label, f) ==
    LET target == attach_bodies[label]
        j == channels[label]
    IN  IF IsNone(target) THEN <<>>
        ELSE IF data[f][j].vis <= -VisScale THEN <<>>
        ELSE LET fac == IF The(target) \in roots THEN root_attachment_factor ELSE 1
             IN  << [label |-> label,
                     body |-> The(target),
                     offset |-> The(attach_offsets[label]),
                     cfm |-> cfm \div fac,
                     erp |-> erp,
                     frame |-> f,
                     fresh |-> TRUE] >>

\* A variant of NewJoint that stiffens every attachment, root or not.
NewJointAllStiff(label, f) ==
    LET target == attach_bodies[label]
        j == channels[label]
    IN  IF IsNone(target) THEN <<>>
        ELSE IF data[f][j].vis < 0 THEN <<>>
        ELSE << [label |-> label,
                 body |-> The(target),
                 offset |-> The(attach_offsets[label]),
                 cfm |-> cfm \div root_attachment_factor,
                 erp |-> erp,
                 frame |-> f,
                 fresh |-> TRUE] >>

\* The attachment attach() creates for `label` at frame f, or none.
NewJoint(label, f) ==
    LET target == attach_bodies[label]
        j == channels[label]
    IN  IF IsNone(target) THEN <<>>
        ELSE IF data[f][j].vis < 0 THEN <<>>
        ELSE LET fac == IF The(target) \in roots THEN root_attachment_factor ELSE 1
             IN  << [label |-> label,
                     body |-> The(target),
                     offset |-> The(attach_offsets[label]),
                     cfm |-> cfm \div fac,
                     erp |-> erp,
                     frame |-> f,
                     fresh |-> TRUE] >>

RECURSIVE NewJoints(_, _)
NewJoints(ls, f) ==
    IF ls = <<>> THEN <<>> ELSE NewJoint(Head(ls), f) \o NewJoints(Tail(ls), f)

\* The attachments that were there before an attach() call are no longer
\* those of the latest call.
Aged(js) == [k \in 1 .. Len(js) |-> [js[k] EXCEPT !.fresh = FALSE]]

\* A variant of attach_joints that puts the new attachments in the place of
\* those that exist.
attach_joints_replacing(js, f) == NewJoints(LabelOrder, f)

\* Markers.attach(frame_no): the list after the call, given the list before.
attach_joints(js, f) == Aged(js) \o NewJoints(LabelOrder, f)

\* A variant of delta without the test for an interior frame: the indices
\* f - 1 and f + 1 wrap around the track, as negative indices do.
deltaWrapping(f, j) ==
    LET prev == data[(f - 1 + num_frames) % num_frames]
        next == data[(f + 1) % num_frames]
    IN  IF prev[j].vis > -VisScale /\ next[j].vis > -VisScale
        THEN ((next[j].pos - prev[j].pos) * FrameRate) \div 2
        ELSE 0

\* Markers.reposition(frame_no): the linear velocity given to channel j.
delta(f, j) ==
    IF 0 < f /\ f < num_frames - 1
    THEN IF data[f - 1][j].vis > -VisScale /\ data[f + 1][j].vis > -VisScale
         THEN ((data[f + 1][j].pos - data[f - 1][j].pos) * FrameRate) \div 2
         ELSE 0
    ELSE 0

reposition_bodies(f) ==
    [l \in Labels |->
        [position |-> data[f][channels[l]].pos,
         linear_velocity |-> delta(f, channels[l])]]

\* ------------------------------------------------------------ Skeleton
get_body_states(bs) ==
    [k \in 1 .. Len(SkelBodies) |->
        [name |-> SkelBodies[k],
         position |-> bs[SkelBodies[k]].position,
         quaternion |-> bs[SkelBodies[k]].quaternion,
         linear_velocity |-> bs[SkelBodies[k]].linear_velocity,
         angular_velocity |-> bs[SkelBodies[k]].angular_velocity]]

\* A variant of set_body_states that puts the bodies in place and at rest.
RECURSIVE set_body_states_at_rest(_, _)
set_body_states_at_rest(bs, sts) ==
    IF sts = <<>> THEN bs
    ELSE LET s == Head(sts)
         IN  set_body_states_at_rest(
                 [bs EXCEPT ![s.name] =
                     [position |-> s.position,
                      quaternion |-> s.quaternion,
                      linear_velocity |-> 0,
                      angular_velocity |-> 0]],
                 Tail(sts))

RECURSIVE set_body_states(_, _)
set_body_states(bs, sts) ==
    IF sts = <<>> THEN bs
    ELSE LET s == Head(sts)
         IN  set_body_states(
                 [bs EXCEPT ![s.name] =
                     [position |-> s.position,
                      quaternion |-> s.quaternion,
                      linear_velocity |-> s.linear_velocity,
                      angular_velocity |-> s.angular_velocity]],
                 Tail(sts))

enable_motors(m, f) == [m EXCEPT !.enabled = TRUE, !.max_force = f]
\* A variant of disable_motors that takes the force away and leaves the
\* motors switched on.
disable_motors_force_only(m) == [m EXCEPT !.max_force = 0]
disable_motors(m) == [m EXCEPT !.enabled = FALSE, !.max_force = 0]
set_target_angles(m, a) == [m EXCEPT !.target = a]
joint_angles(bs) == [d \in Dofs |-> bs["b1"].quaternion - bs["b0"].quaternion]
joint_torques == feedback
add_torques(acc, t) == VecAdd(acc, t)

\* ------------------------------------------------------------ the engine
\* ode_space.collide with World.on_collision: a contact joint for every
\* skeleton body touching the floor (position 0), added to the contact group.
RECURSIVE NewContacts(_, _)
NewContacts(names, bs) ==
    IF names = <<>> THEN <<>>
    ELSE (IF bs[Head(names)].position = 0
          THEN << [a |-> "floor", b |-> Head(names), fresh |-> TRUE] >>
          ELSE <<>>) \o NewContacts(Tail(names), bs)

collide(cg, bs) ==
    [k \in 1 .. Len(cg) |-> [cg[k] EXCEPT !.fresh = FALSE]] \o NewContacts(SkelBodies, bs)

\* What one engine step can result in: a pose for every skeleton body, and
\* the torque the joint motors exerted (none when they are disabled).
StepOutcomes ==
    [poses : [SkelBodySet -> Poses],
     fb : IF motors.enabled THEN [Dofs -> 0 .. MaxTorque] ELSE {ZeroVec}]

\* A kinematic body moves by its velocity.
moved_markers(mb) ==
    [l \in Labels |->
        [mb[l] EXCEPT !.position = mb[l].position + (mb[l].linear_velocity \div FrameRate)]]

\* ode_world.step(dt) with outcome o.
WorldStep(o) ==
    /\ bodies' = [b \in SkelBodySet |-> PoseState(o.poses[b])]
    /\ feedback' = o.fb
    /\ forces' = ZeroVec
    /\ marker_bodies' = moved_markers(marker_bodies)

\* ------------------------------------------------------------------ Init
Init ==
    /\ data = DriveTrack
    /\ channels = [l \in Labels |-> IF l = "m0" THEN 0 ELSE 1]
    /\ marker_bodies = [l \in Labels |-> [position |-> 0, linear_velocity |-> 0]]
    /\ attach_bodies = [l \in Labels |-> IF l = "m0" THEN Some("b0") ELSE Some("b1")]
    /\ attach_offsets = [l \in Labels |-> IF l = "m0" THEN Some(0) ELSE Some(1)]
    /\ roots = {"b0"}
    /\ cfm = DEFAULT_CFM
    /\ erp = DEFAULT_ERP
    /\ root_attachment_factor = DefaultRootFactor
    /\ joints = <<>>
    /\ jointgroup = <<>>
    /\ bodies = [b \in SkelBodySet |-> PoseState(0)]
    /\ contactgroup = <<>>
    /\ motors = [enabled |-> FALSE, max_force |-> 0, target |-> ZeroVec]
    /\ forces = ZeroVec
    /\ feedback = ZeroVec
    /\ mode = "idle"
    /\ pc = "idle"
    /\ scenario \in {"single", "session"}
    /\ abandons = 0
    /\ start = 0
    /\ end = IntEnd(0)
    /\ states_arg = None
    /\ max_force = 0
    /\ frame_no = 0
    /\ i = 0
    /\ states = <<>>
    /\ torques = ZeroVec
    /\ zeros = None
    /\ angles = <<>>
    /\ log = <<>>
    /\ yielded = <<>>
    /\ captured = [markers |-> [l \in Labels |-> [position |-> 0, linear_velocity |-> 0]],
                   joints |-> <<>>, contacts |-> <<>>]
    /\ source = <<>>
    /\ line_no = 0
    /\ joints_before = 0
    /\ memo = None
    /\ file = None
    /\ proxies = [l \in Labels |-> 0]
    /\ prior = None
    /\ stepper = None

\* --------------------------------------------------------------- history
\* An entry names the function that runs (by), the operation it performs,
\* the frame being followed and the operation's arguments, where they do not
\* depend on the engine.
Entry(by, op, arg) == [by |-> by, op |-> op, frame |-> frame_no, arg |-> arg]
Logged(by, op, arg) == log' = Append(log, Entry(by, op, arg))

\* ------------------------------------------------------ the caller's calls
\* Control is with the caller: nothing runs yet, or a generator is suspended
\* or over.  In the scenario "single" the caller makes one call, with any
\* arguments; in the scenario "session" it makes call after call with the
\* usual arguments, abandoning a suspended generator when it starts another
\* run.
Suspended == pc \in {"created", "suspended"}
Callable ==
    IF scenario = "single" THEN pc = "idle"
    ELSE /\ scenario = "session"
         /\ \/ pc \in {"idle", "done", "error"}
            \/ Suspended /\ abandons < MaxAbandons

Starts == IF scenario = "single" THEN 0 .. 1 ELSE {0}
Ends == IF scenario = "single" THEN {1, NumFrames - 1, DefaultEnd} ELSE {DefaultEnd}
IDEnds == IF scenario = "single" THEN {1, NumFrames - 1, NumFrames + 1} ELSE {NumFrames}
StatesInputs == IF scenario = "single" THEN {None, Some(StatesInput)} ELSE {None}
IKForces == IF scenario = "single" THEN {0, DefaultIKForce} ELSE {DefaultIKForce}
SettleFrames == IF scenario = "single" THEN Frames ELSE {0}

NewRun(m, p, s, e, st, f, fr) ==
    /\ mode' = m
    /\ pc' = p
    /\ start' = s
    /\ end' = e
    /\ states_arg' = st
    /\ max_force' = f
    /\ frame_no' = fr
    /\ i' = 0
    /\ states' = <<>>
    /\ torques' = ZeroVec
    /\ zeros' = None
    /\ angles' = <<>>
    /\ log' = <<>>
    /\ yielded' = <<>>
    /\ abandons' = IF Suspended THEN abandons + 1 ELSE abandons
    /\ UNCHANGED <<scenario, captured, markerVars, worldVars, apiVars, fileVars, stepper>>

\* follow_markers(start, end, states): creates the generator.
CallFollow ==
    /\ Callable
    /\ \E s \in Starts, e \in Ends, st \in StatesInputs :
           NewRun("follow", "created", s, IntEnd(e), st, 0, 0)

\* inverse_kinematics(start, end, states, max_force): creates the generator.
CallInverseKinematics ==
    /\ Callable
    /\ \E s \in Starts, e \in Ends, st \in StatesInputs, f \in IKForces :
           NewRun("ik", "created", s, IntEnd(e), st, f, 0)

\* inverse_dynamics(angles, start, end, states, max_force): creates the generator.
CallInverseDynamics ==
    /\ Callable
    /\ \E s \in Starts, e \in IDEnds, st \in StatesInputs :
           NewRun("id", "created", s, IntEnd(e), st, DefaultIDForce, 0)

\* forward_dynamics(torques, start, states): an ordinary function; it calls
\* follow_markers(start, states), so `states` arrives as follow_markers' end.
CallForwardDynamics ==
    /\ Callable
    /\ \E s \in Starts, st \in {None, Some(StatesInput)} :
           NewRun("fd", "follow_init", s, IF IsNone(st) THEN NoneEnd ELSE ListEnd, None, 0, 0)

\* settle_to_markers(frame_no, max_rms_distance, states): an ordinary function.
CallSettle ==
    /\ Callable
    /\ \E f \in SettleFrames, st \in StatesInputs :
           NewRun("settle", "settle_init", 0, IntEnd(0), st, 0, f)

\* The first next() on a generator: its body starts to run.
First ==
    /\ pc = "created"
    /\ pc' = CASE mode = "follow" -> "follow_init"
               [] mode = "ik" -> "ik_init"
               [] mode = "id" -> "id_init"
    /\ UNCHANGED <<mode, scenario, abandons, start, end, states_arg, max_force,
                   frame_no, i, states, torques, zeros, angles>>
    /\ UNCHANGED <<markerVars, worldVars, histVars, apiVars, fileVars, stepper>>

\* A variant of Resume that continues after the engine step, at the
\* clearing of the contacts.
ResumePastStep ==
    /\ pc = "suspended"
    /\ pc' = "clear_contacts"
    /\ Logged("step", "resume", <<>>)
    /\ UNCHANGED <<mode, scenario, abandons, start, end, states_arg, max_force,
                   frame_no, i, states, torques, zeros, angles>>
    /\ UNCHANGED <<markerVars, worldVars, yielded, captured, apiVars, fileVars, stepper>>

\* A later next(): the generator continues after its yield.
Resume ==
    /\ pc = "suspended"
    /\ pc' = "ode_step"
    /\ Logged("step", "resume", <<>>)
    /\ UNCHANGED <<mode, scenario, abandons, start, end, states_arg, max_force,
                   frame_no, i, states, torques, zeros, angles>>
    /\ UNCHANGED <<markerVars, worldVars, yielded, captured, apiVars, fileVars, stepper>>

\* What an action of the running code leaves alone.
SameArgs ==
    /\ UNCHANGED <<mode, scenario, abandons, start, end, states_arg, max_force>>
    /\ UNCHANGED <<apiVars, fileVars, stepper>>
SameLocals == UNCHANGED <<frame_no, i, states, torques, zeros, angles>>
SameMarkerConfig ==
    UNCHANGED <<data, channels, attach_bodies, attach_offsets, roots,
                cfm, erp, root_attachment_factor>>

\* ------------------------------------------- World._step_to_marker_frame
\* A variant of StepDetach that goes on to attach() without reposition().
StepDetachThenAttach ==
    /\ pc = "detach"
    /\ joints' = detach_joints
    /\ jointgroup' = detach_joints
    /\ Logged("step", "detach", <<>>)
    /\ pc' = "attach"
    /\ SameArgs /\ SameLocals /\ SameMarkerConfig
    /\ UNCHANGED <<marker_bodies, worldVars, yielded, captured>>

\* A variant of StepDetach that leaves the attachments in place.
StepDetachNothing ==
    /\ pc = "detach"
    /\ Logged("step", "detach", <<>>)
    /\ pc' = "reposition"
    /\ SameArgs /\ SameLocals
    /\ UNCHANGED <<markerVars, worldVars, yielded, captured>>

\* self.markers.detach()
StepDetach ==
    /\ pc = "detach"
    /\ joints' = detach_joints
    /\ jointgroup' = detach_joints
    /\ Logged("step", "detach", <<>>)
    /\ pc' = "reposition"
    /\ SameArgs /\ SameLocals /\ SameMarkerConfig
    /\ UNCHANGED <<marker_bodies, worldVars, yielded, captured>>

\* A variant of StepReposition that uses the frame up: it marks the markers
\* of the frame as dropped out in the data.
StepRepositionConsumes ==
    /\ pc = "reposition"
    /\ marker_bodies' = reposition_bodies(frame_no)
    /\ data' = [data EXCEPT ![frame_no] =
                   [j \in DOMAIN data[frame_no] |->
                       [data[frame_no][j] EXCEPT !.vis = -VisScale]]]
    /\ Logged("step", "reposition", <<frame_no>>)
    /\ pc' = "attach"
    /\ SameArgs /\ SameLocals
    /\ UNCHANGED <<channels, attach_bodies, attach_offsets, roots,
                   cfm, erp, root_attachment_factor>>
    /\ UNCHANGED <<joints, jointgroup, worldVars, yielded, captured>>

\* self.markers.reposition(frame_no)
StepReposition ==
    /\ pc = "reposition"
    /\ marker_bodies' = reposition_bodies(frame_no)
    /\ Logged("step", "reposition", <<frame_no>>)
    /\ pc' = "attach"
    /\ SameArgs /\ SameLocals /\ SameMarkerConfig
    /\ UNCHANGED <<joints, jointgroup, worldVars, yielded, captured>>

\* self.markers.attach(frame_no)
StepAttach ==
    /\ pc = "attach"
    /\ joints' = attach_joints(joints, frame_no)
    /\ jointgroup' = attach_joints(jointgroup, frame_no)
    /\ Logged("step", "attach", <<frame_no>>)
    /\ pc' = "collide"
    /\ SameArgs /\ SameLocals /\ SameMarkerConfig
    /\ UNCHANGED <<marker_bodies, worldVars, yielded, captured>>

\* self.ode_space.collide(None, self.on_collision)
StepCollide ==
    /\ pc = "collide"
    /\ contactgroup' = collide(contactgroup, bodies)
    /\ Logged("step", "collide", <<>>)
    /\ pc' = "get_states"
    /\ SameArgs /\ SameLocals
    /\ UNCHANGED <<markerVars, bodies, motors, forces, feedback, yielded, captured>>

\* states = self.skeleton.get_body_states()
StepCapture ==
    /\ pc = "get_states"
    /\ states' = get_body_states(bodies)
    /\ captured' = [markers |-> marker_bodies, joints |-> joints, contacts |-> contactgroup]
    /\ Logged("step", "get_body_states", <<>>)
    /\ pc' = "set_states"
    /\ SameArgs
    /\ UNCHANGED <<frame_no, i, torques, zeros, angles>>
    /\ UNCHANGED <<markerVars, worldVars, yielded>>

\* self.skeleton.set_body_states(states)
StepRestore ==
    /\ pc = "set_states"
    /\ bodies' = set_body_states(bodies, states)
    /\ Logged("step", "set_body_states", <<>>)
    /\ pc' = "step_yield"
    /\ SameArgs /\ SameLocals
    /\ UNCHANGED <<markerVars, contactgroup, motors, forces, feedback,
                   yielded, captured>>

\* yield states: the checkpoint goes to the loop that consumes the generator;
\* follow_markers yields it on to its own consumer.
StepYield ==
    /\ pc = "step_yield"
    /\ Logged("step", "yield", <<>>)
    /\ pc' = CASE mode = "follow" -> "suspended"
               [] mode = "ik" -> "ik_target"
               [] mode = "id" -> "id_enable"
               [] mode = "fd" -> "fd_add"
               [] mode = "settle" -> "settle_pass"
    /\ yielded' = IF mode = "follow" THEN Append(yielded, frame_no) ELSE yielded
    /\ SameArgs /\ SameLocals
    /\ UNCHANGED <<markerVars, worldVars, captured>>

\* self.ode_world.step(self.dt)
StepWorld ==
    /\ pc = "ode_step"
    /\ \E o \in StepOutcomes : WorldStep(o)
    /\ Logged("step", "step", <<>>)
    /\ pc' = "clear_contacts"
    /\ SameArgs /\ SameLocals /\ SameMarkerConfig
    /\ UNCHANGED <<joints, jointgroup, contactgroup, motors, yielded, captured>>

\* A variant of StepClearContacts that leaves the contact joints in the group.
StepKeepContacts ==
    /\ pc = "clear_contacts"
    /\ Logged("step", "clear_contacts", <<>>)
    /\ pc' = IF mode = "settle" THEN "settle_rms" ELSE "follow_loop"
    /\ frame_no' = IF mode = "settle" THEN frame_no ELSE frame_no + 1
    /\ SameArgs
    /\ UNCHANGED <<i, states, torques, zeros, angles>>
    /\ UNCHANGED <<markerVars, worldVars, yielded, captured>>

\* self.ode_contactgroup.empty(); the generator ends and the consuming loop
\* goes on.
StepClearContacts ==
    /\ pc = "clear_contacts"
    /\ contactgroup' = <<>>
    /\ Logged("step", "clear_contacts", <<>>)
    /\ pc' = IF mode = "settle" THEN "settle_rms" ELSE "follow_loop"
    /\ frame_no' = IF mode = "settle" THEN frame_no ELSE frame_no + 1
    /\ SameArgs
    /\ UNCHANGED <<i, states, torques, zeros, angles>>
    /\ UNCHANGED <<markerVars, bodies, motors, forces, feedback,
                   yielded, captured>>

\* ---------------------------------------------------- World.follow_markers
\* if states is not None: self.skeleton.set_body_states(states)
FollowInit ==
    /\ pc = "follow_init"
    /\ IF IsNone(states_arg)
       THEN UNCHANGED <<bodies, log>>
       ELSE /\ bodies' = set_body_states(bodies, The(states_arg))
            /\ Logged("follow", "set_body_states", <<>>)
    /\ frame_no' = 0
    /\ pc' = "follow_loop"
    /\ SameArgs
    /\ UNCHANGED <<i, states, torques, zeros, angles>>
    /\ UNCHANGED <<markerVars, contactgroup, motors, forces, feedback,
                   yielded, captured>>

\* A variant of Before whose end bound is inclusive.
BeforeOrAt(f, e) ==
    CASE e.kind = "int" -> {IF f <= e.v THEN "yes" ELSE "no"}
      [] e.kind = "None" -> {"no", "TypeError"}
      [] e.kind = "list" -> {"yes", "TypeError"}

\* frame_no < end, as the interpreter can evaluate it: Python 2 orders None
\* below every number and every number below a list; Python 3 raises
\* TypeError.  The outcomes are "yes", "no" and "TypeError".
Before(f, e) ==
    CASE e.kind = "int" -> {IF f < e.v THEN "yes" ELSE "no"}
      [] e.kind = "None" -> {"no", "TypeError"}
      [] e.kind = "list" -> {"yes", "TypeError"}

\* One iteration of `for frame_no, frame in enumerate(self.markers)` up to
\* `if start <= frame_no < end`.
FollowIter ==
    /\ pc = "follow_loop"
    /\ IF frame_no >= num_frames
       THEN pc' = "done" /\ UNCHANGED frame_no
       ELSE IF ~(start <= frame_no)
       THEN pc' = "follow_loop" /\ frame_no' = frame_no + 1
       ELSE \E r \in Before(frame_no, end) :
                CASE r = "yes" -> pc' = "detach" /\ UNCHANGED frame_no
                  [] r = "no" -> pc' = "follow_loop" /\ frame_no' = frame_no + 1
                  [] r = "TypeError" -> pc' = "error" /\ UNCHANGED frame_no
    /\ SameArgs
    /\ UNCHANGED <<i, states, torques, zeros, angles>>
    /\ UNCHANGED <<markerVars, worldVars, histVars>>

\* ------------------------------------------------ World.inverse_kinematics
\* A variant of IKInit that enables the motors whatever max_force is.
IKInitAlwaysEnables ==
    /\ pc = "ik_init"
    /\ motors' = enable_motors(motors, max_force)
    /\ zeros' = Some(ZeroVec)
    /\ Logged("ik", "enable_motors", <<max_force>>)
    /\ pc' = "follow_init"
    /\ SameArgs
    /\ UNCHANGED <<frame_no, i, states, torques, angles>>
    /\ UNCHANGED <<markerVars, bodies, contactgroup, forces, feedback,
                   yielded, captured>>

\* zeros = None; if max_force > 0: enable_motors(max_force); zeros = np.zeros(num_dofs)
IKInit ==
    /\ pc = "ik_init"
    /\ IF max_force > 0
       THEN /\ motors' = enable_motors(motors, max_force)
            /\ zeros' = Some(ZeroVec)
            /\ Logged("ik", "enable_motors", <<max_force>>)
       ELSE /\ zeros' = None
            /\ UNCHANGED <<motors, log>>
    /\ pc' = "follow_init"
    /\ SameArgs
    /\ UNCHANGED <<frame_no, i, states, torques, angles>>
    /\ UNCHANGED <<markerVars, bodies, contactgroup, forces, feedback,
                   yielded, captured>>

\* A variant of IKTarget that leaves the motors' targets alone.
IKTargetSkipped ==
    /\ pc = "ik_target"
    /\ pc' = "ik_yield"
    /\ SameArgs /\ SameLocals
    /\ UNCHANGED <<markerVars, worldVars, histVars>>

\* A variant of IKTarget that, as Inverse Dynamics does, steps the engine
\* towards the target angles before the angles are read.
IKTargetThenStep ==
    /\ pc = "ik_target"
    /\ motors' = IF IsNone(zeros) THEN motors ELSE set_target_angles(motors, The(zeros))
    /\ \E o \in StepOutcomes : WorldStep(o)
    /\ Logged("step", "step", <<>>)
    /\ pc' = "ik_yield"
    /\ SameArgs /\ SameLocals /\ SameMarkerConfig
    /\ UNCHANGED <<joints, jointgroup, contactgroup, yielded, captured>>

\* if zeros is not None: self.skeleton.set_target_angles(zeros)
IKTarget ==
    /\ pc = "ik_target"
    /\ IF IsNone(zeros)
       THEN UNCHANGED <<motors, log>>
       ELSE /\ motors' = set_target_angles(motors, The(zeros))
            /\ Logged("ik", "set_target_angles", <<The(zeros)>>)
    /\ pc' = "ik_yield"
    /\ SameArgs /\ SameLocals
    /\ UNCHANGED <<markerVars, bodies, contactgroup, forces, feedback,
                   yielded, captured>>

\* yield self.skeleton.joint_angles
IKYield ==
    /\ pc = "ik_yield"
    /\ yielded' = Append(yielded, frame_no)
    /\ Logged("ik", "yield", <<>>)
    /\ pc' = "suspended"
    /\ SameArgs /\ SameLocals
    /\ UNCHANGED <<markerVars, worldVars, captured>>

\* -------------------------------------------------- World.inverse_dynamics
\* A variant of IDInit that keeps the whole angle sequence.
IDInitNoSlice ==
    /\ pc = "id_init"
    /\ angles' = AnglesInput
    /\ pc' = "follow_init"
    /\ SameArgs
    /\ UNCHANGED <<frame_no, i, states, torques, zeros>>
    /\ UNCHANGED <<markerVars, worldVars, histVars>>

\* angles = angles[start:end]
IDInit ==
    /\ pc = "id_init"
    /\ angles' = PySlice(AnglesInput, start, end.v)
    /\ pc' = "follow_init"
    /\ SameArgs
    /\ UNCHANGED <<frame_no, i, states, torques, zeros>>
    /\ UNCHANGED <<markerVars, worldVars, histVars>>

\* self.skeleton.enable_motors(max_force)
IDEnable ==
    /\ pc = "id_enable"
    /\ motors' = enable_motors(motors, max_force)
    /\ Logged("id", "enable_motors", <<max_force>>)
    /\ pc' = "id_target"
    /\ SameArgs /\ SameLocals
    /\ UNCHANGED <<markerVars, bodies, contactgroup, forces, feedback,
                   yielded, captured>>

\* self.skeleton.set_target_angles(angles[i])
IDTarget ==
    /\ pc = "id_target"
    /\ IF i + 1 > Len(angles)
       THEN /\ pc' = "error"
            /\ UNCHANGED <<motors, log>>
       ELSE /\ motors' = set_target_angles(motors, angles[i + 1])
            /\ Logged("id", "set_target_angles", <<angles[i + 1]>>)
            /\ pc' = "id_step"
    /\ SameArgs /\ SameLocals
    /\ UNCHANGED <<markerVars, bodies, contactgroup, forces, feedback,
                   yielded, captured>>

\* self.ode_world.step(self.dt)
IDStep ==
    /\ pc = "id_step"
    /\ \E o \in StepOutcomes : WorldStep(o)
    /\ Logged("id", "step", <<>>)
    /\ pc' = "id_torques"
    /\ SameArgs /\ SameLocals /\ SameMarkerConfig
    /\ UNCHANGED <<joints, jointgroup, contactgroup, motors, yielded, captured>>

\* torques = self.skeleton.joint_torques
IDTorques ==
    /\ pc = "id_torques"
    /\ torques' = joint_torques
    /\ Logged("id", "joint_torques", <<>>)
    /\ pc' = "id_disable"
    /\ SameArgs
    /\ UNCHANGED <<frame_no, i, states, zeros, angles>>
    /\ UNCHANGED <<markerVars, worldVars, yielded, captured>>

\* A variant of IDDisable after which the checkpoint is not restored.
IDDisableSkipsRestore ==
    /\ pc = "id_disable"
    /\ motors' = disable_motors(motors)
    /\ Logged("id", "disable_motors", <<>>)
    /\ pc' = "id_add"
    /\ SameArgs /\ SameLocals
    /\ UNCHANGED <<markerVars, bodies, contactgroup, forces, feedback,
                   yielded, captured>>

\* self.skeleton.disable_motors()
IDDisable ==
    /\ pc = "id_disable"
    /\ motors' = disable_motors(motors)
    /\ Logged("id", "disable_motors", <<>>)
    /\ pc' = "id_restore"
    /\ SameArgs /\ SameLocals
    /\ UNCHANGED <<markerVars, bodies, contactgroup, forces, feedback,
                   yielded, captured>>

\* A variant of IDRestore that writes the poses back but not the velocities.
IDRestorePosesOnly ==
    /\ pc = "id_restore"
    /\ bodies' = [b \in SkelBodySet |->
                      [bodies[b] EXCEPT
                          !.position = set_body_states(bodies, states)[b].position,
                          !.quaternion = set_body_states(bodies, states)[b].quaternion]]
    /\ Logged("id", "set_body_states", <<>>)
    /\ pc' = "id_add"
    /\ SameArgs /\ SameLocals
    /\ UNCHANGED <<markerVars, contactgroup, motors, forces, feedback,
                   yielded, captured>>

\* self.skeleton.set_body_states(states)
IDRestore ==
    /\ pc = "id_restore"
    /\ bodies' = set_body_states(bodies, states)
    /\ Logged("id", "set_body_states", <<>>)
    /\ pc' = "id_add"
    /\ SameArgs /\ SameLocals
    /\ UNCHANGED <<markerVars, contactgroup, motors, forces, feedback,
                   yielded, captured>>

\* self.skeleton.add_torques(torques)
IDAddTorques ==
    /\ pc = "id_add"
    /\ forces' = add_torques(forces, torques)
    /\ Logged("id", "add_torques", <<>>)
    /\ pc' = "id_yield"
    /\ SameArgs /\ SameLocals
    /\ UNCHANGED <<markerVars, bodies, contactgroup, motors, feedback,
                   yielded, captured>>

\* yield torques
IDYield ==
    /\ pc = "id_yield"
    /\ yielded' = Append(yielded, frame_no)
    /\ Logged("id", "yield", <<>>)
    /\ i' = i + 1
    /\ pc' = "suspended"
    /\ SameArgs
    /\ UNCHANGED <<frame_no, states, torques, zeros, angles>>
    /\ UNCHANGED <<markerVars, worldVars, captured>>

\* ------------------------------------------------- World.forward_dynamics
\* self.skeleton.add_torques(torques[i]); the for loop then resumes the
\* follow_markers generator.
FDAddTorques ==
    /\ pc = "fd_add"
    /\ IF i + 1 > Len(TorquesInput)
       THEN /\ pc' = "error"
            /\ UNCHANGED <<forces, log, i>>
       ELSE /\ forces' = add_torques(forces, TorquesInput[i + 1])
            /\ log' = log \o << Entry("fd", "add_torques", <<TorquesInput[i + 1]>>),
                                Entry("step", "resume", <<>>) >>
            /\ i' = i + 1
            /\ pc' = "ode_step"
    /\ SameArgs
    /\ UNCHANGED <<frame_no, states, torques, zeros, angles>>
    /\ UNCHANGED <<markerVars, bodies, contactgroup, motors, feedback,
                   yielded, captured>>

\* ------------------------------------------------ World.settle_to_markers
\* if states is not None: self.skeleton.set_body_states(states)
SettleInit ==
    /\ pc = "settle_init"
    /\ IF IsNone(states_arg)
       THEN UNCHANGED <<bodies, log>>
       ELSE /\ bodies' = set_body_states(bodies, The(states_arg))
            /\ Logged("settle", "set_body_states", <<>>)
    /\ pc' = "detach"
    /\ SameArgs /\ SameLocals
    /\ UNCHANGED <<markerVars, contactgroup, motors, forces, feedback,
                   yielded, captured>>

\* for states in self._step_to_marker_frame(frame_no): pass
SettlePass ==
    /\ pc = "settle_pass"
    /\ Logged("step", "resume", <<>>)
    /\ pc' = "ode_step"
    /\ SameArgs /\ SameLocals
    /\ UNCHANGED <<markerVars, worldVars, yielded, captured>>

\* rmsd = self.markers.rms_distance()
SettleRms ==
    /\ pc = "settle_rms"
    /\ Logged("settle", "rms_distance", <<>>)
    /\ pc' = "settle_check"
    /\ SameArgs /\ SameLocals
    /\ UNCHANGED <<markerVars, worldVars, yielded, captured>>

\* if rmsd < max_rmsd: no name max_rmsd is bound (the parameter is
\* max_rms_distance), so evaluating the condition raises NameError.
SettleCheck ==
    /\ pc = "settle_check"
    /\ pc' = "error"
    /\ SameArgs /\ SameLocals
    /\ UNCHANGED <<markerVars, worldVars, histVars>>

\* ------------------------------------------------------ the specification
Next ==
    \/ CallFollow
    \/ CallInverseKinematics
    \/ CallInverseDynamics
    \/ CallForwardDynamics
    \/ CallSettle
    \/ First
    \/ Resume
    \/ StepDetach
    \/ StepReposition
    \/ StepAttach
    \/ StepCollide
    \/ StepCapture
    \/ StepRestore
    \/ StepYield
    \/ StepWorld
    \/ StepClearContacts
    \/ FollowInit
    \/ FollowIter
    \/ IKInit
    \/ IKTarget
    \/ IKYield
    \/ IDInit
    \/ IDEnable
    \/ IDTarget
    \/ IDStep
    \/ IDTorques
    \/ IDDisable
    \/ IDRestore
    \/ IDAddTorques
    \/ IDYield
    \/ FDAddTorques
    \/ SettleInit
    \/ SettlePass
    \/ SettleRms
    \/ SettleCheck

Spec == Init /\ [][Next]_vars

\* ----------------------------------- direct calls of the Markers operations
\* The validity flags a track can hold: -1, a flag between -1 and 0, and 0.
Validity == {-VisScale, -1, 0}

\* Tracks of n frames: channel m0 is seen in every frame, channel m1 has a
\* flag of its own in at most one frame d and the flag 0 elsewhere.
Tracks(n) ==
    { [f \in 0 .. n - 1 |->
          [j \in 0 .. 1 |->
              [pos |-> 2 * f * (j + 1),
               vis |-> IF j = 1 /\ f = dv[1] THEN dv[2] ELSE 0]]] :
      dv \in (0 .. n - 1) \X Validity }

TrackLengths == {1, NumFrames}

\* What the caller can have assigned to Markers.root_attachment_factor.
RootFactors == {DefaultRootFactor, 2 * DefaultRootFactor, 4 * DefaultRootFactor}

\* A Markers object with a loaded track and attachment configuration: m0 is
\* attached to the root body b0, m1 to b0, to b1 or to nothing.
InitMarkers ==
    /\ \E n \in TrackLengths : data \in Tracks(n)
    /\ channels = [l \in Labels |-> IF l = "m0" THEN 0 ELSE 1]
    /\ marker_bodies = [l \in Labels |-> [position |-> 0, linear_velocity |-> 0]]
    /\ \E t \in {None, Some("b0"), Some("b1")} :
           /\ attach_bodies = [l \in Labels |-> IF l = "m0" THEN Some("b0") ELSE t]
           /\ attach_offsets =
                  [l \in Labels |->
                      IF l = "m0" THEN Some(0) ELSE IF IsNone(t) THEN None ELSE Some(1)]
    /\ roots = {"b0"}
    /\ cfm = DEFAULT_CFM
    /\ erp = DEFAULT_ERP
    /\ root_attachment_factor \in RootFactors
    /\ joints = <<>>
    /\ jointgroup = <<>>
    /\ bodies = [b \in SkelBodySet |-> PoseState(0)]
    /\ contactgroup = <<>>
    /\ motors = [enabled |-> FALSE, max_force |-> 0, target |-> ZeroVec]
    /\ forces = ZeroVec
    /\ feedback = ZeroVec
    /\ mode = "markers"
    /\ pc = "idle"
    /\ scenario = "direct"
    /\ abandons = 0
    /\ start = 0
    /\ end = IntEnd(0)
    /\ states_arg = None
    /\ max_force = 0
    /\ frame_no = 0
    /\ i = 0
    /\ states = <<>>
    /\ torques = ZeroVec
    /\ zeros = None
    /\ angles = <<>>
    /\ log = <<>>
    /\ yielded = <<>>
    /\ captured = [markers |-> [l \in Labels |-> [position |-> 0, linear_velocity |-> 0]],
                   joints |-> <<>>, contacts |-> <<>>]
    /\ source = <<>>
    /\ line_no = 0
    /\ joints_before = 0
    /\ memo = None
    /\ file = None
    /\ proxies = [l \in Labels |-> 0]
    /\ prior = None
    /\ stepper = None

\* The user of the Markers object can call its operations once the object is
\* set up: from the start where that is given, after load_attachments has
\* returned where it is modelled.
DirectCall ==
    \/ mode = "markers"
    \/ mode = "load" /\ pc \in {"done", "m_attached", "m_detached"}

\* What a direct call of a Markers operation leaves alone.
SameWorld ==
    /\ UNCHANGED <<worldVars, histVars, source, line_no, fileVars, stepper>>
    /\ UNCHANGED <<mode, scenario, abandons, start, end, states_arg, max_force,
                   i, states, torques, zeros, angles>>

\* The record of the first attach() made with no attachment in place, and of
\* how often that call has been made since (counted up to 2).
Remember(f, js) ==
    IF joints # <<>> THEN memo
    ELSE IF IsNone(memo) THEN Some([frame |-> f, joints |-> js, times |-> 1])
    ELSE IF The(memo).frame = f
         THEN Some([The(memo) EXCEPT !.times = Min(The(memo).times + 1, 2)])
    ELSE memo

\* A variant of MDetach that empties the joint group and keeps the list.
MDetachGroupOnly ==
    /\ DirectCall
    /\ jointgroup' = detach_joints
    /\ joints_before' = Len(joints)
    /\ pc' = "m_detached"
    /\ SameWorld /\ SameMarkerConfig
    /\ UNCHANGED <<joints, marker_bodies, frame_no, memo>>

\* A variant of MDetach that also forgets the attachment targets.
MDetachClearsTargets ==
    /\ DirectCall
    /\ joints' = detach_joints
    /\ jointgroup' = detach_joints
    /\ attach_bodies' = [l \in Labels |-> None]
    /\ attach_offsets' = [l \in Labels |-> None]
    /\ joints_before' = Len(joints)
    /\ pc' = "m_detached"
    /\ SameWorld
    /\ UNCHANGED <<data, channels, roots, cfm, erp, root_attachment_factor>>
    /\ UNCHANGED <<marker_bodies, frame_no, memo>>

\* markers.detach(), called by the user of the Markers object.
MDetach ==
    /\ DirectCall
    /\ joints' = detach_joints
    /\ jointgroup' = detach_joints
    /\ joints_before' = Len(joints)
    /\ pc' = "m_detached"
    /\ SameWorld /\ SameMarkerConfig
    /\ UNCHANGED <<marker_bodies, frame_no, memo>>

\* markers.attach(frame_no), for a frame of the track.
MAttach ==
    /\ DirectCall
    /\ Len(joints) <= Cardinality(Labels)
    /\ \E f \in DOMAIN data :
           /\ joints' = attach_joints(joints, f)
           /\ jointgroup' = attach_joints(jointgroup, f)
           /\ frame_no' = f
           /\ memo' = Remember(f, attach_joints(joints, f))
    /\ joints_before' = Len(joints)
    /\ pc' = "m_attached"
    /\ SameWorld /\ SameMarkerConfig
    /\ UNCHANGED marker_bodies

\* markers.reposition(frame_no), for a frame of the track.
MReposition ==
    /\ DirectCall
    /\ \E f \in DOMAIN data :
           /\ marker_bodies' = reposition_bodies(f)
           /\ frame_no' = f
    /\ joints_before' = Len(joints)
    /\ pc' = "m_repositioned"
    /\ SameWorld /\ SameMarkerConfig
    /\ UNCHANGED <<joints, jointgroup, memo>>

MarkersNext ==
    \/ MDetach
    \/ MAttach
    \/ MReposition

MarkersSpec == InitMarkers /\ [][MarkersNext]_vars

\* ------------------------------------------------ Markers.load_attachments
\* A line of the configuration is its sequence of words; the word "#" starts
\* a comment.  line.split('#')[0].strip().split(): the words before it.
RECURSIVE Tokens(_)
Tokens(line) ==
    IF line = <<>> \/ Head(line) = "#" THEN <<>>
    ELSE <<Head(line)>> \o Tokens(Tail(line))

\* The names of skeleton.bodies: two of the bodies share the name "b2".
LoadSkeleton == <<"b0", "b1", "b2", "b2">>

\* bodies = [b for b in skeleton.bodies if b.name == name]
Matching(name) == {k \in 1 .. Len(LoadSkeleton) : LoadSkeleton[k] = name}

\* b.dimensions, the same for every body.
Dimensions == <<2, 2, 2>>

\* float(token): the words that are numbers, and their values.
IsNumber(t) == t \in {"0", "1"}
ToFloat(t) == IF t = "1" THEN 1 ELSE 0

\* np.array(v) * b.dimensions / 2: arrays of one element are broadcast, the
\* shapes have to agree otherwise.
Broadcastable(v) == Len(v) \in {1, Len(Dimensions)}
Scaled(v) ==
    [k \in 1 .. Len(Dimensions) |->
        ((IF Len(v) = 1 THEN v[1] ELSE v[k]) * Dimensions[k]) \div 2]

\* A variant of ResolveLine that takes the first matching body unless
\* several match, and so fails when none does.
ResolveLineFirstMatch(line) ==
    LET tokens == Tokens(line)
    IN  IF tokens = <<>> THEN [kind |-> "skip"]
        ELSE IF tokens[1] \notin DOMAIN channels THEN [kind |-> "skip"]
        ELSE IF Len(tokens) = 1 THEN [kind |-> "skip"]
        ELSE IF Cardinality(Matching(tokens[2])) > 1 THEN [kind |-> "skip"]
        ELSE IF Matching(tokens[2]) = {}
             THEN [kind |-> "raise", label |-> tokens[1], body |-> tokens[2]]
        ELSE LET rest == SubSeq(tokens, 3, Len(tokens))
                 nums == [k \in 1 .. Len(rest) |-> ToFloat(rest[k])]
             IN  IF /\ \A k \in 1 .. Len(rest) : IsNumber(rest[k])
                    /\ Broadcastable(nums)
                 THEN [kind |-> "set", label |-> tokens[1], body |-> tokens[2],
                       offset |-> Scaled(nums)]
                 ELSE [kind |-> "raise", label |-> tokens[1], body |-> tokens[2]]

\* What the body of the loop does with a line: it goes on to the next line
\* ("skip"), records a target body and an offset ("set"), or records the
\* target body and raises ValueError while it computes the offset ("raise").
ResolveLine(line) ==
    LET tokens == Tokens(line)
    IN  IF tokens = <<>> THEN [kind |-> "skip"]
        ELSE IF tokens[1] \notin DOMAIN channels THEN [kind |-> "skip"]
        ELSE IF Len(tokens) = 1 THEN [kind |-> "skip"]
        ELSE IF Cardinality(Matching(tokens[2])) # 1 THEN [kind |-> "skip"]
        ELSE LET rest == SubSeq(tokens, 3, Len(tokens))
                 nums == [k \in 1 .. Len(rest) |-> ToFloat(rest[k])]
             IN  IF /\ \A k \in 1 .. Len(rest) : IsNumber(rest[k])
                    /\ Broadcastable(nums)
                 THEN [kind |-> "set", label |-> tokens[1], body |-> tokens[2],
                       offset |-> Scaled(nums)]
                 ELSE [kind |-> "raise", label |-> tokens[1], body |-> tokens[2]]

\* The lines a configuration is made of.
ConfigLines ==
    { <<>>,
      <<"#", "m0", "b0">>,
      <<"mX", "b0", "0", "0", "0">>,
      <<"m1">>,
      <<"m1", "bX", "0", "0", "0">>,
      <<"m1", "b2", "0", "0", "0">>,
      <<"m1", "b1", "1", "1", "1">>,
      <<"m1", "b0", "0", "0", "0">>,
      <<"m0", "b0", "0", "1", "0", "#", "root">>,
      <<"m1", "b1">>,
      <<"m1", "b1", "1">>,
      <<"m1", "b1", "1", "1">>,
      <<"m1", "b1", "1", "1", "1", "1">>,
      <<"m1", "b1", "x", "0", "0">> }

Configs == UNION { [1 .. n -> ConfigLines] : n \in 0 .. MaxLines }

\* A Markers object with a loaded track, before load_attachments(source,
\* skeleton) is called with the name of a file ("path") or with a file-like
\* object ("file"); an earlier call may have left a configuration.
InitLoad ==
    /\ data = DriveTrack
    /\ channels = [l \in Labels |-> IF l = "m0" THEN 0 ELSE 1]
    /\ marker_bodies = [l \in Labels |-> [position |-> 0, linear_velocity |-> 0]]
    /\ \E t \in {None, Some("b1")} :
           /\ attach_bodies = [l \in Labels |-> IF l = "m0" THEN t ELSE None]
           /\ attach_offsets =
                  [l \in Labels |->
                      IF l = "m0" /\ ~IsNone(t) THEN Some(Scaled(<<1>>)) ELSE None]
    /\ roots = {}
    /\ cfm = DEFAULT_CFM
    /\ erp = DEFAULT_ERP
    /\ root_attachment_factor = DefaultRootFactor
    /\ joints = <<>>
    /\ jointgroup = <<>>
    /\ bodies = [b \in SkelBodySet |-> PoseState(0)]
    /\ contactgroup = <<>>
    /\ motors = [enabled |-> FALSE, max_force |-> 0, target |-> ZeroVec]
    /\ forces = ZeroVec
    /\ feedback = ZeroVec
    /\ mode = "load"
    /\ pc = "idle"
    /\ scenario \in {"path", "file"}
    /\ abandons = 0
    /\ start = 0
    /\ end = IntEnd(0)
    /\ states_arg = None
    /\ max_force = 0
    /\ frame_no = 0
    /\ i = 0
    /\ states = <<>>
    /\ torques = ZeroVec
    /\ zeros = None
    /\ angles = <<>>
    /\ log = <<>>
    /\ yielded = <<>>
    /\ captured = [markers |-> [l \in Labels |-> [position |-> 0, linear_velocity |-> 0]],
                   joints |-> <<>>, contacts |-> <<>>]
    /\ source \in Configs
    /\ line_no = 0
    /\ joints_before = 0
    /\ memo = None
    /\ file = None
    /\ proxies = [l \in Labels |-> 0]
    /\ prior = None
    /\ stepper = None

\* What load_attachments leaves alone.
SameLoaded ==
    /\ UNCHANGED <<worldVars, histVars, source, joints_before, memo, fileVars, stepper>>
    /\ UNCHANGED <<mode, scenario, abandons, start, end, states_arg, max_force,
                   frame_no, i, states, torques, zeros, angles>>
    /\ UNCHANGED <<data, channels, marker_bodies, cfm, erp, root_attachment_factor,
                   joints, jointgroup>>

\* self.roots = skeleton.roots; self.attach_bodies = {}; self.attach_offsets
\* = {}; then the source is opened, or, for a file-like object, its name is
\* formatted with '(file-{:r})', a format specification no object accepts.
LoadStart ==
    /\ mode = "load"
    /\ pc = "idle"
    /\ roots' = {"b0"}
    /\ attach_bodies' = [l \in Labels |-> None]
    /\ attach_offsets' = [l \in Labels |-> None]
    /\ pc' = IF scenario = "path" THEN "load_loop" ELSE "error"
    /\ UNCHANGED line_no
    /\ SameLoaded

\* A variant of LoadLine in which a marker keeps the target and the offset
\* of the first line that names it.
LoadLineFirstWins ==
    /\ pc = "load_loop"
    /\ line_no < Len(source)
    /\ LET r == ResolveLine(source[line_no + 1])
       IN  CASE r.kind = "skip" ->
                    /\ pc' = "load_loop"
                    /\ UNCHANGED <<attach_bodies, attach_offsets>>
             [] r.kind = "set" ->
                    /\ pc' = "load_loop"
                    /\ IF IsNone(attach_bodies[r.label])
                       THEN /\ attach_bodies' =
                                   [attach_bodies EXCEPT ![r.label] = Some(r.body)]
                            /\ attach_offsets' =
                                   [attach_offsets EXCEPT ![r.label] = Some(r.offset)]
                       ELSE UNCHANGED <<attach_bodies, attach_offsets>>
             [] r.kind = "raise" ->
                    /\ pc' = "error"
                    /\ attach_bodies' = [attach_bodies EXCEPT ![r.label] = Some(r.body)]
                    /\ UNCHANGED attach_offsets
    /\ line_no' = line_no + 1
    /\ UNCHANGED roots
    /\ SameLoaded

\* One iteration of `for i, line in enumerate(source)`.
LoadLine ==
    /\ pc = "load_loop"
    /\ line_no < Len(source)
    /\ LET r == ResolveLine(source[line_no + 1])
       IN  CASE r.kind = "skip" ->
                    /\ pc' = "load_loop"
                    /\ UNCHANGED <<attach_bodies, attach_offsets>>
             [] r.kind = "set" ->
                    /\ pc' = "load_loop"
                    /\ attach_bodies' = [attach_bodies EXCEPT ![r.label] = Some(r.body)]
                    /\ attach_offsets' = [attach_offsets EXCEPT ![r.label] = Some(r.offset)]
             [] r.kind = "raise" ->
                    /\ pc' = "error"
                    /\ attach_bodies' = [attach_bodies EXCEPT ![r.label] = Some(r.body)]
                    /\ UNCHANGED attach_offsets
    /\ line_no' = line_no + 1
    /\ UNCHANGED roots
    /\ SameLoaded

\* The source is exhausted: load_attachments returns.
LoadReturn ==
    /\ pc = "load_loop"
    /\ line_no = Len(source)
    /\ pc' = "done"
    /\ UNCHANGED <<roots, attach_bodies, attach_offsets, line_no>>
    /\ SameLoaded

LoadNext ==
    \/ LoadStart
    \/ LoadLine
    \/ LoadReturn

LoadSpec == InitLoad /\ [][LoadNext]_vars

\* load_attachments, and the direct calls of detach and attach on the
\* configuration it has loaded.
LoadedNext ==
    \/ LoadStart
    \/ LoadLine
    \/ LoadReturn
    \/ MDetach
    \/ MAttach

LoadedSpec == InitLoad /\ [][LoadedNext]_vars

\* ------------------------------------------------------ World.load_markers
\* max_frames=1e100, the default of load_markers, load_c3d and load_csv.
DefaultMaxFrames == 1000000

\* self.data[:, :, :4] /= 1000.
MmPerM == 1000

\* The marker files: the extension of the name, the frame rate and the
\* number of frames of the file, its unit of length, and the max_frames of
\* the call.
Files ==
    [ext : {"c3d", "csv", "txt"},
     rate : {FrameRate, 2 * FrameRate},
     frames : 0 .. NumFrames + 1,
     mm : BOOLEAN,
     max_frames : (0 .. NumFrames) \cup {DefaultMaxFrames}]

\* The frames of a file, in the file's unit: both markers seen in all of
\* them.
FileTrack(fl) ==
    [f \in 0 .. fl.frames - 1 |->
        [j \in 0 .. 1 |->
            [pos |-> (f + j + 1) * (IF fl.mm THEN MmPerM ELSE 1), vis |-> 0]]]

\* for _, frame, _ in reader.read_frames(): data.append(frame); if len(data)
\* > max_frames: break -- how many frames the loop has read when it ends.
FramesRead(fl) == Min(fl.frames, fl.max_frames + 1)

\* self.data after load_c3d: the frames read, in metres.
ReadTrack(fl) ==
    [f \in 0 .. FramesRead(fl) - 1 |->
        [j \in 0 .. 1 |->
            [pos |-> IF fl.mm THEN FileTrack(fl)[f][j].pos \div MmPerM
                     ELSE FileTrack(fl)[f][j].pos,
             vis |-> FileTrack(fl)[f][j].vis]]]

\* The attachment files given to load_markers: lines that are skipped, that
\* record a target and that raise.
AttachmentLines ==
    { <<"#", "m0", "b0">>,
      <<"m1", "b1", "1", "1", "1">>,
      <<"m1", "b1">> }

AttachmentFiles == UNION { [1 .. n -> AttachmentLines] : n \in 0 .. MaxLines }

\* A world with a skeleton, and either no marker data yet or a track and an
\* attachment configuration of an earlier load_markers call.
InitLoadMarkers ==
    /\ \E loaded \in BOOLEAN :
           /\ data = IF loaded THEN DriveTrack ELSE None
           /\ channels = IF loaded THEN [l \in Labels |-> IF l = "m0" THEN 0 ELSE 1]
                         ELSE <<>>
           /\ marker_bodies =
                  IF loaded
                  THEN [l \in Labels |-> [position |-> 0, linear_velocity |-> 0]]
                  ELSE <<>>
           /\ attach_bodies =
                  [l \in Labels |-> IF loaded /\ l = "m0" THEN Some("b1") ELSE None]
           /\ attach_offsets =
                  [l \in Labels |->
                      IF loaded /\ l = "m0" THEN Some(Scaled(<<1>>)) ELSE None]
           /\ roots = IF loaded THEN {"b0"} ELSE {}
           /\ proxies = IF loaded THEN [l \in Labels |-> 0] ELSE <<>>
    /\ cfm = DEFAULT_CFM
    /\ erp = DEFAULT_ERP
    /\ root_attachment_factor = DefaultRootFactor
    /\ joints = <<>>
    /\ jointgroup = <<>>
    /\ bodies = [b \in SkelBodySet |-> PoseState(0)]
    /\ contactgroup = <<>>
    /\ motors = [enabled |-> FALSE, max_force |-> 0, target |-> ZeroVec]
    /\ forces = ZeroVec
    /\ feedback = ZeroVec
    /\ mode = "load_markers"
    /\ pc = "idle"
    /\ scenario = "path"
    /\ abandons = 0
    /\ start = 0
    /\ end = IntEnd(0)
    /\ states_arg = None
    /\ max_force = 0
    /\ frame_no = 0
    /\ i = 0
    /\ states = <<>>
    /\ torques = ZeroVec
    /\ zeros = None
    /\ angles = <<>>
    /\ log = <<>>
    /\ yielded = <<>>
    /\ captured = [markers |-> [l \in Labels |-> [position |-> 0, linear_velocity |-> 0]],
                   joints |-> <<>>, contacts |-> <<>>]
    /\ source = <<>>
    /\ line_no = 0
    /\ joints_before = 0
    /\ memo = None
    /\ file = None
    /\ prior = None
    /\ stepper = None

\* What load_markers and the loaders it calls leave alone.
SameLoading ==
    /\ UNCHANGED <<worldVars, histVars, line_no, joints_before, memo, stepper>>
    /\ UNCHANGED <<scenario, abandons, start, end, states_arg, max_force,
                   frame_no, i, states, torques, zeros, angles>>

\* The Markers object and the bodies of the world, as a call finds them.
Snapshot ==
    [data |-> data, channels |-> channels, marker_bodies |-> marker_bodies,
     attach_bodies |-> attach_bodies, attach_offsets |-> attach_offsets,
     proxies |-> proxies, bodies |-> bodies]

\* load_markers(filename, attachments, max_frames) up to the call of a
\* loader: self.markers = Markers(self), then load_c3d or load_csv by the
\* end of the name; for any other name logging.fatal writes a message and
\* load_attachments is called next.
LoadMarkersStart ==
    /\ mode = "load_markers"
    /\ pc = "idle"
    /\ \E fl \in Files, att \in AttachmentFiles :
           /\ file' = Some(fl)
           /\ source' = att
           /\ mode' = IF fl.ext \in {"c3d", "csv"} THEN "load_markers" ELSE "load"
           /\ pc' = CASE fl.ext = "c3d" -> "load_c3d"
                      [] fl.ext = "csv" -> "load_csv"
                      [] OTHER -> "idle"
    /\ prior' = Some(Snapshot)
    /\ data' = None
    /\ channels' = <<>>
    /\ marker_bodies' = <<>>
    /\ attach_bodies' = [l \in Labels |-> None]
    /\ attach_offsets' = [l \in Labels |-> None]
    /\ roots' = {}
    /\ cfm' = DEFAULT_CFM
    /\ erp' = DEFAULT_ERP
    /\ root_attachment_factor' = DefaultRootFactor
    /\ joints' = <<>>
    /\ jointgroup' = <<>>
    /\ UNCHANGED proxies
    /\ SameLoading

\* Markers.load_c3d and create_bodies.  The assertion on the frame rate
\* raises before anything is read; an empty list of frames makes an array of
\* one axis, which the scaling to metres cannot index; otherwise every
\* channel gets a new body marker:<label> in the world.
LoadC3D ==
    /\ mode = "load_markers"
    /\ pc = "load_c3d"
    /\ LET fl == The(file)
           ch == [l \in Labels |-> IF l = "m0" THEN 0 ELSE 1]
       IN  IF fl.rate # FrameRate
           THEN /\ pc' = "error"
                /\ UNCHANGED <<mode, data, channels, marker_bodies, proxies>>
           ELSE IF FramesRead(fl) = 0 /\ fl.mm
           THEN /\ pc' = "error"
                /\ data' = ReadTrack(fl)
                /\ channels' = ch
                /\ UNCHANGED <<mode, marker_bodies, proxies>>
           ELSE /\ pc' = "idle"
                /\ mode' = "load"
                /\ data' = ReadTrack(fl)
                /\ channels' = ch
                /\ marker_bodies' =
                       [l \in DOMAIN ch |-> [position |-> 0, linear_velocity |-> 0]]
                /\ proxies' =
                       [l \in DOMAIN proxies \cup DOMAIN ch |->
                           IF l \in DOMAIN ch THEN 1 ELSE proxies[l]]
    /\ UNCHANGED <<attach_bodies, attach_offsets, roots, cfm, erp,
                   root_attachment_factor, joints, jointgroup>>
    /\ UNCHANGED <<file, prior, source>>
    /\ SameLoading

\* Markers.load_csv: reader.next() is no method of a csv reader, and where
\* it is one the name `labels` is not defined: the call raises before it
\* reads a frame.
LoadCSV ==
    /\ mode = "load_markers"
    /\ pc = "load_csv"
    /\ pc' = "error"
    /\ UNCHANGED <<mode, markerVars, file, proxies, prior, source>>
    /\ SameLoading

LoadMarkersNext ==
    \/ LoadMarkersStart
    \/ LoadC3D
    \/ LoadCSV
    \/ LoadStart
    \/ LoadLine
    \/ LoadReturn

LoadMarkersSpec == InitLoadMarkers /\ [][LoadMarkersNext]_vars

\* ------------------------------------------------------------- World.step
\* How many calls of step() the caller makes.
MaxStepCalls == NumFrames + 3

\* A world with a loaded track whose caller advances it with step().  The
\* class never assigns frame_no: the attribute is there if something else
\* has set it.  No follower exists yet.
InitStep ==
    /\ data = DriveTrack
    /\ channels = [l \in Labels |-> IF l = "m0" THEN 0 ELSE 1]
    /\ marker_bodies = [l \in Labels |-> [position |-> 0, linear_velocity |-> 0]]
    /\ attach_bodies = [l \in Labels |-> IF l = "m0" THEN Some("b0") ELSE Some("b1")]
    /\ attach_offsets = [l \in Labels |-> IF l = "m0" THEN Some(0) ELSE Some(1)]
    /\ roots = {"b0"}
    /\ cfm = DEFAULT_CFM
    /\ erp = DEFAULT_ERP
    /\ root_attachment_factor = DefaultRootFactor
    /\ joints = <<>>
    /\ jointgroup = <<>>
    /\ bodies = [b \in SkelBodySet |-> PoseState(0)]
    /\ contactgroup = <<>>
    /\ motors = [enabled |-> FALSE, max_force |-> 0, target |-> ZeroVec]
    /\ forces = ZeroVec
    /\ feedback = ZeroVec
    /\ mode = "idle"
    /\ pc = "idle"
    /\ scenario = "stepper"
    /\ abandons = 0
    /\ start = 0
    /\ end = IntEnd(0)
    /\ states_arg = None
    /\ max_force = 0
    /\ frame_no = 0
    /\ i = 0
    /\ states = <<>>
    /\ torques = ZeroVec
    /\ zeros = None
    /\ angles = <<>>
    /\ log = <<>>
    /\ yielded = <<>>
    /\ captured = [markers |-> [l \in Labels |-> [position |-> 0, linear_velocity |-> 0]],
                   joints |-> <<>>, contacts |-> <<>>]
    /\ source = <<>>
    /\ line_no = 0
    /\ joints_before = 0
    /\ memo = None
    /\ file = None
    /\ proxies = [l \in Labels |-> 0]
    /\ prior = None
    /\ \E fn \in {None, Some(0)} :
           stepper = [calls |-> 0, frame_no |-> fn, outcome |-> "none",
                      mark |-> 0, begun |-> 0]

\* How often the current run of the follower has repositioned the markers.
Repositions ==
    Len(SelectSeq(log, LAMBDA e : e.by = "step" /\ e.op = "reposition"))

\* The frames the follower has begun since the current call of step() was
\* made: the markers were repositioned to them.
Begun == Repositions - stepper.mark

\* reset(): self.follower = self.follow_markers() -- a new generator, which
\* has not run yet.
ResetFollower ==
    /\ mode' = "follow"
    /\ pc' = "created"
    /\ start' = 0
    /\ end' = IntEnd(DefaultEnd)
    /\ states_arg' = None
    /\ max_force' = 0
    /\ frame_no' = 0
    /\ i' = 0
    /\ states' = <<>>
    /\ torques' = ZeroVec
    /\ zeros' = None
    /\ angles' = <<>>
    /\ log' = <<>>
    /\ yielded' = <<>>
    /\ UNCHANGED <<scenario, abandons, captured, markerVars, worldVars, apiVars, fileVars>>

\* step(): self.frame_no += 1, which raises AttributeError where the
\* attribute is missing; then next(self.follower), which raises
\* AttributeError where no follower exists yet -- that one is caught, and
\* reset() makes the follower -- and which otherwise runs the follower from
\* where it is suspended.
WorldStepCall ==
    /\ scenario = "stepper"
    /\ pc \in {"idle", "created", "suspended"}
    /\ stepper.calls < MaxStepCalls
    /\ IF IsNone(stepper.frame_no)
       THEN /\ stepper' = [stepper EXCEPT !.calls = @ + 1,
                                          !.outcome = "AttributeError",
                                          !.mark = Repositions,
                                          !.begun = 0]
            /\ UNCHANGED <<markerVars, worldVars, runVars, histVars, apiVars, fileVars>>
       ELSE IF pc = "idle"
       THEN /\ stepper' = [stepper EXCEPT !.calls = @ + 1,
                                          !.frame_no = Some(The(@) + 1),
                                          !.outcome = "reset",
                                          !.mark = 0,
                                          !.begun = 0]
            /\ ResetFollower
       ELSE /\ stepper' = [stepper EXCEPT !.calls = @ + 1,
                                          !.frame_no = Some(The(@) + 1),
                                          !.outcome = "next",
                                          !.mark = Repositions,
                                          !.begun = 0]
            /\ pc' = IF pc = "created" THEN "follow_init" ELSE "ode_step"
            /\ UNCHANGED <<mode, scenario, abandons, start, end, states_arg, max_force,
                           frame_no, i, states, torques, zeros, angles>>
            /\ UNCHANGED <<markerVars, worldVars, histVars, apiVars, fileVars>>

\* except (AttributeError, StopIteration): self.reset() -- the follower has
\* come to its end during the call.
WorldStepExhausted ==
    /\ scenario = "stepper"
    /\ pc = "done"
    /\ stepper' = [stepper EXCEPT !.outcome = "reset", !.mark = 0, !.begun = Begun]
    /\ ResetFollower

\* The last call of step() is over.
StepReturned ==
    /\ scenario = "stepper"
    /\ stepper.calls > 0
    /\ pc \in {"idle", "created", "suspended"}

\* The frames the follower began during the last call of step().
BegunInCall == IF stepper.outcome = "reset" THEN stepper.begun ELSE Begun

StepperNext ==
    \/ WorldStepCall
    \/ WorldStepExhausted
    \/ FollowInit
    \/ FollowIter
    \/ StepDetach
    \/ StepReposition
    \/ StepAttach
    \/ StepCollide
    \/ StepCapture
    \/ StepRestore
    \/ StepYield
    \/ StepWorld
    \/ StepClearContacts

StepperSpec == InitStep /\ [][StepperNext]_vars

\* ------------------------------------------------- World.set_body_states
\* The names a FrameState can carry: those of the bodies of the world, and
\* one that no body has.
StateNames == SkelBodySet \cup {"bX"}

\* An entry (name, pos, rot, lin, ang) of a FrameState.
StateEntries ==
    [name : StateNames, position : Poses, quaternion : Poses,
     linear_velocity : {0}, angular_velocity : {0}]

\* The FrameStates given to set_body_states: up to as many entries as the
\* world has bodies.
FrameStates == UNION { [1 .. n -> StateEntries] : n \in 0 .. Len(SkelBodies) }

\* A world whose bodies are in any pose, before set_body_states is called.
InitBodyStates ==
    /\ data = DriveTrack
    /\ channels = [l \in Labels |-> IF l = "m0" THEN 0 ELSE 1]
    /\ marker_bodies = [l \in Labels |-> [position |-> 0, linear_velocity |-> 0]]
    /\ attach_bodies = [l \in Labels |-> IF l = "m0" THEN Some("b0") ELSE Some("b1")]
    /\ attach_offsets = [l \in Labels |-> IF l = "m0" THEN Some(0) ELSE Some(1)]
    /\ roots = {"b0"}
    /\ cfm = DEFAULT_CFM
    /\ erp = DEFAULT_ERP
    /\ root_attachment_factor = DefaultRootFactor
    /\ joints = <<>>
    /\ jointgroup = <<>>
    /\ \E ps \in [SkelBodySet -> Poses] : bodies = [b \in SkelBodySet |-> PoseState(ps[b])]
    /\ contactgroup = <<>>
    /\ motors = [enabled |-> FALSE, max_force |-> 0, target |-> ZeroVec]
    /\ forces = ZeroVec
    /\ feedback = ZeroVec
    /\ mode = "body_states"
    /\ pc = "idle"
    /\ scenario = "direct"
    /\ abandons = 0
    /\ start = 0
    /\ end = IntEnd(0)
    /\ states_arg = None
    /\ max_force = 0
    /\ frame_no = 0
    /\ i = 0
    /\ states = <<>>
    /\ torques = ZeroVec
    /\ zeros = None
    /\ angles = <<>>
    /\ log = <<>>
    /\ yielded = <<>>
    /\ captured = [markers |-> [l \in Labels |-> [position |-> 0, linear_velocity |-> 0]],
                   joints |-> <<>>, contacts |-> <<>>]
    /\ source = <<>>
    /\ line_no = 0
    /\ joints_before = 0
    /\ memo = None
    /\ file = None
    /\ proxies = [l \in Labels |-> 0]
    /\ prior = None
    /\ stepper = None

\* What set_body_states leaves alone.
SameBodyStates ==
    /\ UNCHANGED <<markerVars, contactgroup, motors, forces, feedback, histVars,
                   apiVars, file, proxies, stepper>>
    /\ UNCHANGED <<mode, scenario, abandons, start, end, max_force, frame_no,
                   states, torques, zeros, angles>>

\* set_body_states(states) is called.
SetBodyStatesCall ==
    /\ mode = "body_states"
    /\ pc = "idle"
    /\ \E sts \in FrameStates : states_arg' = Some(sts)
    /\ prior' = Some(Snapshot)
    /\ i' = 0
    /\ pc' = "set_loop"
    /\ UNCHANGED bodies
    /\ SameBodyStates

\* One iteration of `for name, pos, rot, lin, ang in states`: get_body(name)
\* raises KeyError for a name the world does not have; the four fields of
\* the body are written otherwise.
SetBodyStatesEntry ==
    /\ mode = "body_states"
    /\ pc = "set_loop"
    /\ i < Len(The(states_arg))
    /\ LET s == The(states_arg)[i + 1]
       IN  IF s.name \notin DOMAIN bodies
           THEN pc' = "error" /\ UNCHANGED bodies
           ELSE /\ pc' = "set_loop"
                /\ bodies' = [bodies EXCEPT ![s.name] =
                                 [position |-> s.position,
                                  quaternion |-> s.quaternion,
                                  linear_velocity |-> s.linear_velocity,
                                  angular_velocity |-> s.angular_velocity]]
    /\ i' = i + 1
    /\ UNCHANGED <<states_arg, prior>>
    /\ SameBodyStates

\* The loop is over: set_body_states returns.
SetBodyStatesReturn ==
    /\ mode = "body_states"
    /\ pc = "set_loop"
    /\ i = Len(The(states_arg))
    /\ pc' = "done"
    /\ UNCHANGED <<bodies, i, states_arg, prior>>
    /\ SameBodyStates

BodyStatesNext ==
    \/ SetBodyStatesCall
    \/ SetBodyStatesEntry
    \/ SetBodyStatesReturn

BodyStatesSpec == InitBodyStates /\ [][BodyStatesNext]_vars

\* ------------------------------------------------- every operation on a track
\* A world with a loaded track, on which the caller either runs the drive
\* modes and settle_to_markers (scenarios "single" and "session") or calls
\* detach, attach and reposition directly (scenario "direct").
InitOperations == Init \/ InitMarkers

OperationsNext ==
    \/ Next
    \/ MarkersNext

OperationsSpec == InitOperations /\ [][OperationsNext]_vars

\* ================================================================ claims
By(who) == SelectSeq(log, LAMBDA e : e.by = who)
CountOp(who, op) == Len(SelectSeq(log, LAMBDA e : e.by = who /\ e.op = op))
IsPrefix(s, t) == Len(s) <= Len(t) /\ SubSeq(t, 1, Len(s)) = s

\* The frames of [s, e) that the track has, in increasing order.
FramesOf(s, e) == [k \in 1 .. Max(0, Min(e, num_frames) - s) |-> s + k - 1]

\* The operations of one run of _step_to_marker_frame, in the order of the
\* specification; "resume" is the consumer asking for the next element.
FrameOps ==
    << "detach", "reposition", "attach", "collide", "get_body_states",
       "set_body_states", "yield", "resume", "step", "clear_contacts" >>

\* C1: in every run, the operations of the per-frame step occur frame by
\* frame in the order detach, reposition(frame_no), attach(frame_no),
\* collision detection, capture of the body states, their restoration, yield,
\* and, only once the consumer has resumed the generator, engine step and
\* clearing of the contacts; up to the yield nothing else runs in between,
\* and while the caller holds the checkpoint the frame's engine step has not
\* happened.
C1_StepOrder ==
    LET sl == By("step")
    IN  /\ \A k \in 1 .. Len(sl) :
               LET r == ((k - 1) % Len(FrameOps)) + 1
               IN  /\ sl[k].op = FrameOps[r]
                   /\ sl[k].frame = sl[k - (r - 1)].frame
                   /\ sl[k].op \in {"reposition", "attach"} => sl[k].arg = <<sl[k].frame>>
        /\ \A k \in 1 .. Len(log) - 1 :
               (log[k].by = "step" /\ log[k].op \notin {"yield", "clear_contacts"})
                   => log[k + 1].by = "step"
        /\ (pc = "suspended" /\ sl # <<>>) => sl[Len(sl)].op = "yield"

\* A second frame's checkpoint is with the caller, the first frame complete.
C1_Witness ==
    /\ pc = "suspended"
    /\ mode = "follow"
    /\ Len(By("step")) = Len(FrameOps) + 7
    /\ frame_no = start + 1

\* C2: whatever runs the caller starts, completes or abandons, the marker
\* attachments that exist were all created by the latest attach() call, for
\* one frame: attachments of two frames never coexist.
C2_OneFrameAttached ==
    /\ \A k \in 1 .. Len(joints) : joints[k].fresh /\ joints[k].frame = joints[1].frame
    /\ \A k \in 1 .. Len(jointgroup) :
           jointgroup[k].fresh /\ jointgroup[k].frame = jointgroup[1].frame

\* A run started after an abandoned one has attached its first frame, the
\* earlier runs' attachments having existed at a checkpoint.
C2_Witness ==
    /\ scenario = "session"
    /\ abandons = 1
    /\ pc = "collide"
    /\ Len(log) = 3
    /\ captured.joints # <<>>
    /\ Len(joints) = 2

\* The operations of one frame of inverse_dynamics, after it has received
\* the frame's checkpoint.
IDOps ==
    << "enable_motors", "set_target_angles", "step", "joint_torques",
       "disable_motors", "set_body_states", "add_torques", "yield" >>

\* C3: in every frame of an Inverse Dynamics run, between the checkpoint and
\* the yield of the torques, the operations are enable_motors(max_force),
\* set_target_angles(the frame's angles), one engine step, the reading of
\* joint_torques, disable_motors, set_body_states(checkpoint),
\* add_torques(the torques read), yield, in this order and with nothing in
\* between; the restore is never skipped and never follows add_torques.
C3_IDOrder ==
    mode = "id" =>
        LET il == By("id")
        IN  /\ \A k \in 1 .. Len(il) :
                   LET r == ((k - 1) % Len(IDOps)) + 1
                   IN  /\ il[k].op = IDOps[r]
                       /\ il[k].frame = il[k - (r - 1)].frame
                       /\ il[k].op = "enable_motors" => il[k].arg = <<max_force>>
                       /\ il[k].op = "set_target_angles"
                              => il[k].arg = <<AnglesInput[il[k].frame + 1]>>
            /\ \A k \in 1 .. Len(log) - 1 :
                   /\ (log[k].by = "id" /\ log[k].op # "yield") => log[k + 1].by = "id"
                   /\ (log[k].by = "step" /\ log[k].op = "yield")
                          => (log[k + 1].by = "id" /\ log[k + 1].op = "enable_motors")
                   /\ (log[k].by = "id" /\ log[k].op = "yield")
                          => (log[k + 1].by = "step" /\ log[k + 1].op = "resume")
            /\ pc = "id_add" => get_body_states(bodies) = states
            /\ pc = "id_yield" => (torques = feedback /\ forces = torques)

\* The torques of a second frame are about to be yielded.
C3_Witness ==
    /\ mode = "id"
    /\ pc = "id_yield"
    /\ Len(By("id")) = 2 * Len(IDOps) - 1
    /\ torques # ZeroVec

\* C4: at every yield of an Inverse Dynamics run the skeleton's body states
\* are the frame's checkpoint, and the engine step that leads to the next
\* frame starts from that checkpoint with the computed torques applied and
\* the motors disabled.
C4_IDCheckpoint ==
    mode = "id" =>
        /\ pc \in {"id_yield", "suspended"} => get_body_states(bodies) = states
        /\ pc = "ode_step" =>
               /\ get_body_states(bodies) = states
               /\ forces = torques
               /\ ~motors.enabled

\* The torque-driven step of a second frame is about to run.
C4_Witness ==
    /\ mode = "id"
    /\ pc = "ode_step"
    /\ Len(yielded) = 2
    /\ torques # ZeroVec
    /\ get_body_states(bodies) = states

\* C5, as claimed: in an Inverse Dynamics frame, from the restore of the
\* checkpoint to the torque-driven engine step, the skeleton body states, the
\* marker proxy bodies, the attachments and the contacts are what they were
\* when the checkpoint was captured.
C5_RestoreReproducesCapture ==
    (mode = "id" /\ pc \in {"id_add", "id_yield", "suspended", "ode_step"}) =>
        /\ get_body_states(bodies) = states
        /\ marker_bodies = captured.markers
        /\ joints = captured.joints
        /\ contactgroup = captured.contacts

\* The log entries of the per-frame step that are yields.
StepYields == SelectSeq(log, LAMBDA e : e.by = "step" /\ e.op = "yield")

\* C6: follow_markers(start, end) yields exactly one checkpoint for each
\* frame f of the track with start <= f < end, in increasing frame order;
\* no operation of the per-frame step is performed for a frame outside
\* [start, end); initial states, if given, are written to the skeleton
\* once, before the first frame is processed.
C6_FollowRange ==
    mode = "follow" =>
        /\ IsPrefix(yielded, FramesOf(start, end.v))
        /\ pc = "done" => yielded = FramesOf(start, end.v)
        /\ Len(StepYields) = Len(yielded)
        /\ \A k \in 1 .. Len(log) :
               log[k].by = "step" =>
                   (start <= log[k].frame /\ log[k].frame < end.v
                        /\ log[k].frame < num_frames)
        /\ IF IsNone(states_arg)
           THEN CountOp("follow", "set_body_states") = 0
           ELSE /\ pc \notin {"created", "follow_init"} =>
                       (log[1].by = "follow" /\ log[1].op = "set_body_states"
                            /\ CountOp("follow", "set_body_states") = 1)
                /\ (pc = "follow_loop" /\ Len(log) = 1) =>
                       get_body_states(bodies) = The(states_arg)

\* A run over an inner range of the track, with initial states, is over.
C6_Witness ==
    /\ mode = "follow"
    /\ pc = "done"
    /\ start = 1
    /\ end.v = NumFrames - 1
    /\ ~IsNone(states_arg)
    /\ yielded = FramesOf(1, NumFrames - 1)
    /\ yielded # <<>>

\* C7: an Inverse Kinematics run with max_force = 0 never calls
\* enable_motors and never calls set_target_angles, and yields exactly one
\* angle vector per followed frame: as many vectors as the track has frames
\* when the range is the whole track.
C7_IKZeroForce ==
    (mode = "ik" /\ max_force = 0) =>
        /\ \A k \in 1 .. Len(log) :
               log[k].op \notin {"enable_motors", "set_target_angles"}
        /\ ~motors.enabled
        /\ IsPrefix(yielded, FramesOf(start, end.v))
        /\ pc = "done" => yielded = FramesOf(start, end.v)
        /\ (pc = "done" /\ start = 0 /\ end.v >= num_frames) => Len(yielded) = num_frames
        /\ Len(StepYields) \in {Len(yielded), Len(yielded) + 1}

\* A run with max_force = 0 over the whole track is over.
C7_Witness ==
    /\ mode = "ik"
    /\ max_force = 0
    /\ pc = "done"
    /\ start = 0
    /\ Len(yielded) = NumFrames

\* C8: an Inverse Kinematics run with max_force > 0 calls
\* enable_motors(max_force) exactly once, before the first frame is
\* followed, and calls set_target_angles with the all-zero vector of length
\* num_dofs exactly once for every followed frame, after the frame's
\* checkpoint and immediately before the frame's angle vector is yielded.
C8_IKMotors ==
    (mode = "ik" /\ max_force > 0) =>
        /\ pc \notin {"created", "ik_init"} =>
               /\ log[1] = [by |-> "ik", op |-> "enable_motors", frame |-> 0,
                            arg |-> <<max_force>>]
               /\ CountOp("ik", "enable_motors") = 1
        /\ \A k \in 1 .. Len(log) :
               /\ (log[k].by = "ik" /\ log[k].op = "yield") =>
                      /\ k > 2
                      /\ log[k - 1].by = "ik" /\ log[k - 1].op = "set_target_angles"
                      /\ log[k - 1].frame = log[k].frame
               /\ (log[k].by = "ik" /\ log[k].op = "set_target_angles") =>
                      /\ log[k].arg = <<ZeroVec>>
                      /\ Len(log[k].arg[1]) = num_dofs
                      /\ log[k - 1].by = "step" /\ log[k - 1].op = "yield"
                      /\ log[k - 1].frame = log[k].frame
        /\ pc = "ik_yield" => (motors.enabled /\ motors.target = ZeroVec)
        /\ pc = "done" =>
               CountOp("ik", "set_target_angles") = Len(FramesOf(start, end.v))

\* The angle vector of a second frame is about to be yielded, the motors
\* enabled.
C8_Witness ==
    /\ mode = "ik"
    /\ max_force > 0
    /\ pc = "ik_yield"
    /\ Len(yielded) = 1
    /\ CountOp("ik", "set_target_angles") = 2

FDAdds == SelectSeq(log, LAMBDA e : e.by = "fd" /\ e.op = "add_torques")

\* C10, as claimed: forward_dynamics follows the frames from start to the
\* end of the track, calling add_torques(torques[i]) once for the i-th
\* followed frame before that frame's engine step, and writes a given
\* `states` to the skeleton before the first frame instead of using it as a
\* frame bound.
C10_FDReplaysTorques ==
    mode = "fd" =>
        /\ pc # "error"
        /\ pc = "done" =>
               /\ [k \in 1 .. Len(FDAdds) |-> FDAdds[k].frame] = FramesOf(start, num_frames)
               /\ \A k \in 1 .. Len(FDAdds) : FDAdds[k].arg = <<TorquesInput[k]>>
        /\ (end.kind = "list" /\ pc # "follow_init") =>
               (log # <<>> /\ log[1].by = "follow" /\ log[1].op = "set_body_states")

\* C11, as claimed: settle_to_markers evaluates its termination test after
\* every iteration and ends only by returning a FrameState, once the RMS
\* marker distance is below the caller's threshold; it does not end in an
\* exception.
C11_SettleReturns ==
    mode = "settle" =>
        /\ pc # "error"
        /\ pc = "done" => states # <<>>

\* The attachments of channel l, as indices of Markers.joints.
AttachedTo(l) == {k \in 1 .. Len(joints) : joints[k].label = l}

\* Channel l has a target body and its marker is seen (validity >= 0) at f.
Attachable(l, f) == ~IsNone(attach_bodies[l]) /\ data[f][channels[l]].vis >= 0

\* C12: after attach(frame_no) on an empty attachment set there is exactly
\* one attachment for every channel that has a target body and is no
\* dropout at frame_no, from the channel's proxy body to that target at the
\* precomputed offset, and none for any other channel.
C12_AttachExactly ==
    (pc = "m_attached" /\ joints_before = 0) =>
        /\ \A l \in Labels :
               IF Attachable(l, frame_no)
               THEN /\ Cardinality(AttachedTo(l)) = 1
                    /\ \A k \in AttachedTo(l) :
                           /\ joints[k].body = The(attach_bodies[l])
                           /\ joints[k].offset = The(attach_offsets[l])
               ELSE AttachedTo(l) = {}
        /\ jointgroup = joints

\* attach() has run on an empty set at a frame where m1, which has a
\* target, carries a validity flag between -1 and 0.
C12_Witness ==
    /\ pc = "m_attached"
    /\ joints_before = 0
    /\ ~IsNone(attach_bodies["m1"])
    /\ data[frame_no][1].vis = -1
    /\ Len(joints) = 1

\* C13: for a fixed frame and configuration, detach() after attach(frame_no)
\* leaves no attachment, and attach(frame_no) on the empty set produces
\* again the attachment set it produced the first time.
C13_AttachDeterministic ==
    /\ pc = "m_detached" => (joints = <<>> /\ jointgroup = <<>>)
    /\ (pc = "m_attached" /\ joints_before = 0 /\ ~IsNone(memo)) =>
           (The(memo).frame = frame_no => joints = The(memo).joints)

\* attach(frame_no) has been repeated after a detach() and has produced two
\* attachments.
C13_Witness ==
    /\ pc = "m_attached"
    /\ joints_before = 0
    /\ ~IsNone(memo)
    /\ The(memo).frame = frame_no
    /\ The(memo).times = 2
    /\ Len(joints) = 2

\* C14: a detach() call, in any state, leaves no attachment and leaves the
\* marker proxy bodies, the skeleton bodies, the marker data and the
\* attachment configuration as they were; with no attachment in place it
\* changes nothing.
C14_DetachEffect ==
    [][ pc' = "m_detached" =>
            /\ joints' = <<>>
            /\ jointgroup' = <<>>
            /\ UNCHANGED <<marker_bodies, bodies, data, channels, attach_bodies,
                           attach_offsets, roots, cfm, erp, root_attachment_factor>>
            /\ joints = <<>> => UNCHANGED <<markerVars, worldVars>> ]_vars

\* detach() has been called with no attachment in place.
C14_Witness ==
    /\ pc = "m_detached"
    /\ joints_before = 0
    /\ joints = <<>>

C16_BoundaryFrames ==
    (pc = "m_repositioned" /\ frame_no \in {0, num_frames - 1}) =>
        \A l \in Labels :
            /\ marker_bodies[l].linear_velocity = 0
            /\ marker_bodies[l].position = data[frame_no][channels[l]].pos

\* reposition() has run at the last frame of a track of several frames, all
\* markers seen in the frame before it.
C16_Witness ==
    /\ pc = "m_repositioned"
    /\ num_frames = NumFrames
    /\ frame_no = num_frames - 1
    /\ \A j \in 0 .. 1 : data[frame_no - 1][j].vis = 0
    /\ marker_bodies["m1"].position # 0

\* C17: every attachment has the compliance cfm / root_attachment_factor if
\* its target is a root body and cfm otherwise, so that a root and a
\* non-root attachment differ by exactly the factor; every attachment has
\* the stiffness erp.
C17_RootCompliance ==
    /\ \A k \in 1 .. Len(joints) :
           /\ joints[k].cfm = IF joints[k].body \in roots
                              THEN cfm \div root_attachment_factor
                              ELSE cfm
           /\ joints[k].erp = erp
    /\ \A k1, k2 \in 1 .. Len(joints) :
           (joints[k1].body \in roots /\ joints[k2].body \notin roots) =>
               joints[k2].cfm = joints[k1].cfm * root_attachment_factor

\* A root and a non-root attachment exist, the factor being above 1.
C17_Witness ==
    /\ mode = "markers"
    /\ root_attachment_factor > 1
    /\ \E k1, k2 \in 1 .. Len(joints) :
           /\ joints[k1].body \in roots
           /\ joints[k2].body \notin roots
           /\ joints[k1].frame = joints[k2].frame

\* C18, as claimed: in every reachable state, also when the caller never set
\* root_attachment_factor, every attachment to a root body has a compliance
\* strictly below that of every attachment to a non-root body.
C18_RootStiffer ==
    \A k1, k2 \in 1 .. Len(joints) :
        (joints[k1].body \in roots /\ joints[k2].body \notin roots) =>
            joints[k1].cfm < joints[k2].cfm

\* A line that is empty or only a comment, or whose marker label is no
\* channel of the track, or whose body name does not match exactly one
\* skeleton body.
Unresolvable(line) ==
    LET t == Tokens(line)
    IN  \/ t = <<>>
        \/ t[1] \notin DOMAIN channels
        \/ Len(t) >= 2 /\ Cardinality(Matching(t[2])) # 1

\* C19: load_attachments passes over every line that is empty or only a
\* comment, or whose marker label is no channel of the track, or whose body
\* name does not match exactly one skeleton body: it does not raise, it
\* records no target and no offset for the line, and it goes on with the
\* next line.
C19_SkipUnresolvable ==
    [][ (pc = "load_loop" /\ line_no < Len(source)
             /\ Unresolvable(source[line_no + 1])) =>
            /\ pc' = "load_loop"
            /\ line_no' = line_no + 1
            /\ UNCHANGED <<attach_bodies, attach_offsets>> ]_vars

\* A configuration whose first line names a body that matches no or several
\* skeleton bodies has been read to its end, and its second line has given
\* m1 a target.
C19_Witness ==
    /\ mode = "load"
    /\ pc = "done"
    /\ Len(source) = 2
    /\ Len(Tokens(source[1])) >= 2
    /\ Tokens(source[1])[1] = "m1"
    /\ Unresolvable(source[1])
    /\ attach_bodies["m1"] = Some("b1")

\* C20, as claimed: load_attachments, given the name of a configuration
\* file, never aborts on a line: whatever the lines hold, the call does not
\* end in an exception.
C20_NeverAborts ==
    (mode = "load" /\ scenario = "path") => pc # "error"

\* The last of the first k lines of the configuration that records a target
\* and an offset for channel l, if there is one.
RECURSIVE LastSet(_, _)
LastSet(l, k) ==
    IF k = 0 THEN None
    ELSE LET r == ResolveLine(source[k])
         IN  IF r.kind = "set" /\ r.label = l THEN Some(r) ELSE LastSet(l, k - 1)

\* load_attachments has returned, and direct calls may have followed.
Loaded == mode = "load" /\ pc \in {"done", "m_attached", "m_detached"}

Unrecognized(fl) == fl.ext \notin {"c3d", "csv"}

\* The frame rate of a C3D file is not 1 / dt.
RateMismatch(fl) == fl.ext = "c3d" /\ fl.rate # FrameRate

\* C22, as claimed: when the format of the marker file is not recognized
\* from its name, or its frame rate does not match the time step of the
\* world, load_markers does not return normally and does not go on to load
\* the attachment configuration.
C22_LoadMarkersFails ==
    (~IsNone(file) /\ (Unrecognized(The(file)) \/ RateMismatch(The(file)))) =>
        /\ pc # "done"
        /\ mode # "load"

\* C23, as claimed: when a load_markers call has failed, the world has the
\* bodies it had before the call, every skeleton body is in the state it
\* was in, and the marker track and the attachment configuration are those
\* of before the call.
C23_FailedLoadKeepsState ==
    (~IsNone(file) /\ pc = "error") =>
        /\ proxies = The(prior).proxies
        /\ bodies = The(prior).bodies
        /\ data = The(prior).data
        /\ channels = The(prior).channels
        /\ marker_bodies = The(prior).marker_bodies
        /\ attach_bodies = The(prior).attach_bodies
        /\ attach_offsets = The(prior).attach_offsets

\* C24, as claimed: once load_c3d has read a file of N frames with
\* max_frames = k, the track has min(N, k) frames.
C24_MaxFrames ==
    (~IsNone(file) /\ mode = "load" /\ The(file).ext = "c3d") =>
        num_frames = Min(The(file).frames, The(file).max_frames)

DriveModes == {"follow", "ik", "id", "fd"}

\* The run has completed a frame, or no run before it was abandoned at a
\* yield.
CleanStart == abandons = 0 \/ CountOp("step", "clear_contacts") > 0

C27_AbandonAtYield ==
    /\ (mode \in DriveModes /\ pc = "suspended") =>
           /\ contactgroup = <<>>
           /\ \A k \in 1 .. Len(joints) : joints[k].frame < frame_no
    /\ (mode \in DriveModes /\ abandons > 0 /\ pc = "collide"
            /\ CountOp("step", "clear_contacts") = 0) =>
           contactgroup = <<>>

\* The engine steps of the current run: those of the per-frame step and
\* those Inverse Dynamics makes itself.
EngineSteps == CountOp("step", "step") + CountOp("id", "step")

\* C28, as amended: a Follow, Inverse Kinematics or Inverse Dynamics run
\* suspends exactly once per followed frame; up to a suspension a Follow or
\* Inverse Kinematics run has stepped the engine once per earlier
\* suspension, an Inverse Dynamics run twice per earlier suspension and once
\* more, so between two consecutive suspensions the engine is stepped once,
\* respectively twice; and the run has begun at most one frame per next()
\* of its caller.  Forward Dynamics is no sequence: it is never suspended.
C28_OneSuspensionPerFrame ==
    /\ (mode \in {"follow", "ik", "id"} /\ pc = "suspended") =>
           /\ Len(yielded) = CountOp("step", "detach")
           /\ \A k1, k2 \in 1 .. Len(yielded) : k1 < k2 => yielded[k1] < yielded[k2]
           /\ CountOp("step", "resume") = Len(yielded) - 1
           /\ EngineSteps = IF mode = "id" THEN 2 * Len(yielded) - 1
                            ELSE Len(yielded) - 1
    /\ mode \in {"follow", "ik", "id"} =>
           /\ CountOp("step", "detach") <= CountOp("step", "resume") + 1
           /\ Len(yielded) <= CountOp("step", "detach")
    /\ mode = "fd" => (pc # "suspended" /\ yielded = <<>>)

\* An Inverse Dynamics run is suspended for the second time, after three
\* engine steps.
C28_Witness ==
    /\ mode = "id"
    /\ pc = "suspended"
    /\ Len(yielded) = 2
    /\ EngineSteps = 3

\* C28, as claimed: in every drive mode, each followed frame that has been
\* completed was suspended at once.
C28_EveryModeSuspends ==
    mode \in DriveModes => CountOp("step", "clear_contacts") <= Len(yielded)

\* C29: once a track is loaded, no detach, attach, reposition, rms_distance,
\* follow_markers, inverse kinematics, inverse dynamics, forward dynamics
\* or settle operation changes the marker data, the number of frames, the
\* number of markers, the mapping of labels to channels or the set of
\* marker proxy bodies.
C29_TrackImmutable ==
    [][ /\ UNCHANGED <<data, channels, proxies>>
        /\ num_frames' = num_frames
        /\ num_markers' = num_markers
        /\ DOMAIN marker_bodies' = DOMAIN marker_bodies ]_vars

\* A follow run has repositioned and attached the markers in its last frame,
\* over the track it started with.
C29_Witness ==
    /\ mode = "follow"
    /\ pc = "collide"
    /\ frame_no = NumFrames - 1
    /\ data = DriveTrack
    /\ marker_bodies["m0"].position # 0
    /\ joints # <<>>

\* C30, as claimed: every call of World.step that returns has advanced the
\* simulation by exactly one marker frame.
C30_StepAdvancesOneFrame ==
    (StepReturned /\ stepper.outcome # "AttributeError") => BegunInCall = 1

\* The skeleton as a run in the scenario "single" finds it, after the
\* `states` argument, if given, has been set.
InitialPose ==
    IF IsNone(states_arg) THEN [b \in SkelBodySet |-> PoseState(0)]
    ELSE set_body_states([b \in SkelBodySet |-> PoseState(0)], The(states_arg))

\* C31: the angle vector that Inverse Kinematics yields for frame f is read
\* after the detach, reposition and attach of frame f and before the engine
\* step of frame f: the engine has been stepped once for every frame
\* yielded before and not since frame f was attached, the skeleton is as
\* the frame's checkpoint recorded it, and at the first yield it is in the
\* pose the run started with, no engine step made.
C31_IKAnglesBeforeStep ==
    (mode = "ik" /\ pc = "ik_yield") =>
        /\ EngineSteps = Len(yielded)
        /\ CountOp("step", "attach") = Len(yielded) + 1
        /\ \E k \in 1 .. Len(log) :
               /\ log[k] = [by |-> "step", op |-> "attach", frame |-> frame_no,
                            arg |-> <<frame_no>>]
               /\ \A n \in k + 1 .. Len(log) :
                      log[n].op \notin {"step", "detach", "reposition", "attach"}
        /\ get_body_states(bodies) = states
        /\ joint_angles(bodies) =
               [d \in Dofs |-> states[2].quaternion - states[1].quaternion]
        /\ yielded = <<>> =>
               /\ EngineSteps = 0
               /\ scenario = "single" => bodies = InitialPose

\* The angle vector of the second followed frame is about to be yielded,
\* the skeleton moved by the one engine step of the frame before.
C31_Witness ==
    /\ mode = "ik"
    /\ pc = "ik_yield"
    /\ Len(yielded) = 1
    /\ EngineSteps = 1
    /\ \E b \in SkelBodySet : bodies[b].quaternion # 0

\* C32, as claimed: when settle_to_markers evaluates rms_distance(), the
\* iteration has made one complete per-frame step of the frame it was
\* called for, the last operation being the clearing of the contacts, and
\* the frame's attachments still exist; once the distance is evaluated the
\* call goes on to another iteration or returns the checkpoint of the last
\* iteration: it does not end otherwise.
C32_SettleIteration ==
    mode = "settle" =>
        /\ pc \in {"settle_rms", "settle_check"} =>
               LET sl == By("step")
                   n == Len(sl) - Len(FrameOps)
               IN  /\ n >= 0
                   /\ \A k \in 1 .. Len(FrameOps) :
                          sl[n + k].op = FrameOps[k] /\ sl[n + k].frame = frame_no
                   /\ joints = NewJoints(LabelOrder, frame_no)
                   /\ jointgroup = joints
                   /\ Len(states) = Len(SkelBodies)
        /\ CountOp("settle", "rms_distance") > 0 => pc # "error"
        /\ pc = "done" => Len(states) = Len(SkelBodies)

\* C33: at every yield of an Inverse Dynamics run the joint motors are
\* disabled, and every enable_motors call of the run is followed by a
\* disable_motors call before the next yield; an Inverse Kinematics run
\* with max_force > 0 never disables the motors, which are still enabled
\* when it is over.
C33_MotorsAtYield ==
    /\ (mode = "id" /\ pc \in {"id_yield", "suspended"}) =>
           /\ ~motors.enabled
           /\ CountOp("id", "enable_motors") = CountOp("id", "disable_motors")
    /\ mode = "id" =>
           \A k \in 1 .. Len(log) :
               (log[k].by = "id" /\ log[k].op = "enable_motors") =>
                   \A n \in k + 1 .. Len(log) :
                       (log[n].by = "id" /\ log[n].op = "yield") =>
                           \E d \in k + 1 .. n - 1 :
                               log[d].by = "id" /\ log[d].op = "disable_motors"
    /\ (mode = "ik" /\ max_force > 0 /\ pc \notin {"created", "ik_init"}) =>
           /\ motors.enabled
           /\ \A k \in 1 .. Len(log) : log[k].op # "disable_motors"

\* The second torque vector of an Inverse Dynamics run is about to be
\* yielded, the motors enabled and disabled twice.
C33_Witness ==
    /\ mode = "id"
    /\ pc = "id_yield"
    /\ Len(yielded) = 1
    /\ CountOp("id", "enable_motors") = 2
    /\ CountOp("id", "disable_motors") = 2
    /\ ~motors.enabled

\* C34: under any sequence of attach and detach calls the list
\* Markers.joints holds exactly the joints of the marker joint group;
\* attach() keeps the attachments that exist and adds one for every
\* attachable channel, so that a second attach() of the same frame, with no
\* detach() in between, leaves two attachments for every attachable channel.
C34_JointsAreTheGroup ==
    [][ /\ jointgroup = joints
        /\ jointgroup' = joints'
        /\ pc' = "m_attached" =>
               /\ Len(joints') =
                      Len(joints) + Cardinality({l \in Labels : Attachable(l, frame_no')})
               /\ \A k \in 1 .. Len(joints) :
                      joints'[k] = [joints[k] EXCEPT !.fresh = FALSE]
        /\ (pc = "m_attached" /\ joints_before = 0 /\ pc' = "m_attached"
                /\ frame_no' = frame_no) =>
               \A l \in Labels :
                   Cardinality({k \in 1 .. Len(joints') : joints'[k].label = l}) =
                       IF Attachable(l, frame_no) THEN 2 ELSE 0 ]_vars

\* attach() has been called twice for the same frame with no detach() in
\* between: both channels are attached twice.
C34_Witness ==
    /\ pc = "m_attached"
    /\ joints_before = 2
    /\ Len(joints) = 4
    /\ \A k \in 1 .. Len(joints) : joints[k].frame = frame_no
    /\ \A l \in Labels : Cardinality(AttachedTo(l)) = 2

\* C35, as claimed: once a load_attachments call is over, whether it has
\* returned or raised, the marker labels with a recorded target body are
\* those with a recorded offset.
C35_TargetsHaveOffsets ==
    (mode = "load" /\ pc \in {"done", "error"}) =>
        \A l \in Labels : IsNone(attach_bodies[l]) <=> IsNone(attach_offsets[l])

\* The last entry of the FrameState that names body b, if there is one.
RECURSIVE LastEntry(_, _)
LastEntry(b, k) ==
    IF k = 0 THEN None
    ELSE IF The(states_arg)[k].name = b THEN Some(The(states_arg)[k])
    ELSE LastEntry(b, k - 1)

\* C36, as claimed: when set_body_states fails because the FrameState names
\* a body the world does not have, no body has been changed; when it
\* returns, the bodies that are named have the state given for them and
\* every other body is as it was.
C36_AllOrNothing ==
    mode = "body_states" =>
        /\ pc = "error" => bodies = The(prior).bodies
        /\ pc = "done" =>
               \A b \in DOMAIN bodies :
                   LET e == LastEntry(b, Len(The(states_arg)))
                   IN  IF IsNone(e) THEN bodies[b] = The(prior).bodies[b]
                       ELSE /\ bodies[b].position = The(e).position
                            /\ bodies[b].quaternion = The(e).quaternion
                            /\ bodies[b].linear_velocity = The(e).linear_velocity
                            /\ bodies[b].angular_velocity = The(e).angular_velocity
====
